---------------------------- MODULE Spec2Model ----------------------------
(***************************************************************************)
(* A state-machine model of fobi's views (src/src/fobi/views.py): the      *)
(* builder operations on plugin entries, form import, the submission       *)
(* pipeline of view_form_entry and the finalisation of FormWizardView.     *)
(*                                                                         *)
(* Every view is one action.  An action records the request it served in   *)
(* `request`, the calls it made, in order, in `trace`, the messages it     *)
(* flashed in `messages` and what it returned (or raised) in `response`.   *)
(***************************************************************************)
EXTENDS Integers, Sequences, FiniteSets, TLC

(***************************************************************************)
(* Bounds of the model.                                                    *)
(***************************************************************************)
MaxPk == 3
MaxDocLen == 2
MaxPosition == 2

\* The number of steps of the wizard that is stepped through.
WizardSteps == 3

(***************************************************************************)
(* The world outside views.py: users, the plugin registries, plugin data.  *)
(***************************************************************************)
None == "None"
AnonymousUser == "anonymous"
Users == {"u1", "u2"}

\* form_handler_plugin_registry: db_store may be used once per form and has
\* no configuration form, mail may be used many times and has one.
FormHandlerUids == {"db_store", "mail"}
\* form_wizard_handler_plugin_registry
FormWizardHandlerUids == {"db_store", "mail"}
\* form_element_plugin_registry
FormElementUids == {"text", "email"}
\* A uid no registry knows.
GhostUid == "ghost"

PluginData == {"a", "b"}

allow_multiple(uid) == uid = "mail"

\* plugin.get_form(): the configuration form class, or nothing.
get_form(uid) == uid \in {"mail", "text", "email"}

\* The uids `user` is entitled to; u2 is not entitled to db_store.
get_user_form_handler_plugin_uids(user) ==
    IF user = "u1" THEN FormHandlerUids
    ELSE IF user = "u2" THEN {"mail"}
    ELSE {}

get_user_form_wizard_handler_plugin_uids(user) ==
    IF user = "u1" THEN FormWizardHandlerUids
    ELSE IF user = "u2" THEN {"mail"}
    ELSE {}

\* u2 is not entitled to email.
get_user_form_field_plugin_uids(user) ==
    IF user = "u1" THEN FormElementUids
    ELSE IF user = "u2" THEN {"text"}
    ELSE {}

(***************************************************************************)
(* State.                                                                  *)
(***************************************************************************)
VARIABLES
    formEntries,              \* FormEntry rows: [pk, user, slug, is_public]
    formElementEntries,       \* FormElementEntry rows, in pk order
    formHandlerEntries,       \* FormHandlerEntry rows, in pk order
    formWizardEntries,        \* FormWizardEntry rows: [pk, user, slug, is_public]
    formWizardFormEntries,    \* FormWizardFormEntry rows (the steps)
    formWizardHandlerEntries, \* FormWizardHandlerEntry rows, in pk order
    pks,                      \* the next primary key of each table
    storage,                  \* the wizard session storage
    request,                  \* the request served last
    response,                 \* what the view returned or raised
    messages,                 \* the messages flashed while serving it
    trace,                    \* the calls made while serving it, in order
    result,                   \* what the view computed (fields, handler output)
    effects,                  \* what the wizard session has done so far
    exported,                 \* the file the user got from the last export
    inflight                  \* the requests that have read and not yet saved

vars == <<formEntries, formElementEntries, formHandlerEntries,
          formWizardEntries, formWizardFormEntries, formWizardHandlerEntries,
          pks, storage, request, response, messages, trace, result,
          effects, exported, inflight>>

db == <<formEntries, formElementEntries, formHandlerEntries,
        formWizardEntries, formWizardFormEntries, formWizardHandlerEntries,
        pks>>

(***************************************************************************)
(* Sequence helpers.                                                       *)
(***************************************************************************)
Range(s) == {s[i] : i \in 1..Len(s)}

RECURSIVE SelectRows(_, _)
\* the rows of s whose pk is in keep, in order
SelectRows(s, keep) ==
    IF s = <<>> THEN <<>>
    ELSE IF Head(s).pk \in keep
         THEN <<Head(s)>> \o SelectRows(Tail(s), keep)
         ELSE SelectRows(Tail(s), keep)

Pks(s) == {s[i].pk : i \in 1..Len(s)}

\* QuerySet.filter(...).count()
Count(s, form_entry_id, plugin_uid) ==
    Cardinality({i \in 1..Len(s) :
        s[i].form_entry = form_entry_id /\ s[i].plugin_uid = plugin_uid})

(***************************************************************************)
(* Requests and responses.                                                 *)
(***************************************************************************)
\* A request: the view it is routed to, request.user, request.method, the
\* id and plugin uid (or slug) of the URL, whether the POSTed form is valid
\* and which plugin data it carries, the handler entries whose plugin will
\* fail when it is run for this request, the wizard steps whose stored
\* data does not validate any more when this request is served, and the
\* document (the parsed JSON file) an import uploads.
\* A request that uploads no document carries the empty document.
NoDocument == [slug |-> None, is_public |-> FALSE, form_elements |-> <<>>,
               form_handlers |-> <<>>]

Request(view, user, method, id, uid, is_valid, plugin_data) ==
    [view |-> view, user |-> user, method |-> method, id |-> id, uid |-> uid,
     is_valid |-> is_valid, plugin_data |-> plugin_data, failing |-> {},
     invalid |-> {}, form_data |-> NoDocument]

NoRequest == Request(None, None, None, 0, None, FALSE, None)

\* What a browser can send to a plugin view: a GET, or a POST of a plugin
\* form that validates or does not.
Submissions ==
    {[method |-> "GET", is_valid |-> FALSE, plugin_data |-> None]}
    \cup {[method |-> "POST", is_valid |-> FALSE, plugin_data |-> None]}
    \cup {[method |-> "POST", is_valid |-> TRUE, plugin_data |-> d] :
             d \in PluginData}

Http404(detail) == [status |-> "Http404", detail |-> detail]
Redirect(to) == [status |-> "redirect", detail |-> to]
Render(template) == [status |-> "render", detail |-> template]
\* an exception no view catches: the request ends in a server error
Raised(exception) == [status |-> "error", detail |-> exception]
NoResponse == [status |-> None, detail |-> None]

\* A flashed message; arg is what its text is formatted with (0: nothing).
Message(level, text) == [level |-> level, text |-> text, arg |-> 0]

\* One call made while serving a request: what was called, on which row
\* (0: none), with which argument and with which form (0: none).
Call(name, pk, arg) == [call |-> name, pk |-> pk, arg |-> arg, form |-> 0]

\* A call that is handed the form of the request.
FormCall(name, pk, arg, form) ==
    [call |-> name, pk |-> pk, arg |-> arg, form |-> form]

NoResult == [fields |-> <<>>, responses |-> <<>>, errors |-> <<>>]

\* The wizard storage after storage.reset(): no current step (0), and no
\* step has data.  step_data is the set of the steps that have data.
EmptyStorage == [current_step |-> 0, step_data |-> {}]

\* Nothing has been done in the wizard session.
NoEffects == [state |-> "Idle", runs |-> 0, submitted |-> {}]

\* No file has been exported: the export of no form.
NoFile == [document |-> NoDocument, elements |-> <<>>, handlers |-> <<>>]

\* The server processes that serve requests side by side.
Workers == {"p1", "p2"}

\* A process that is serving no request.
NoFlight ==
    [pc |-> "idle", view |-> None, user |-> None, id |-> 0, uid |-> None,
     plugin_data |-> None, read |-> 0]

\* A view that touches neither storage nor the wizard session.
Answer(req, resp, msgs, calls) ==
    /\ request' = req
    /\ response' = resp
    /\ messages' = msgs
    /\ trace' = calls
    /\ result' = NoResult


(***************************************************************************)
(* add_form_handler_entry, add_form_wizard_handler_entry                   *)
(***************************************************************************)
\* `if times_used > 0` of add_form_handler_entry
\* The mutant: the uid is looked for in the registry, not among the uids
\* of the user.
plugin_allowed_if_registered(plugin_uid, user_plugin_uids) ==
    plugin_uid # GhostUid

\* `if plugin_uid not in user_plugin_uids: raise Http404`
plugin_allowed(plugin_uid, user_plugin_uids) ==
    plugin_uid \in user_plugin_uids

times_used_once_wrong(times_used) == times_used > 1

times_used_once(times_used) == times_used > 0

\* `if times_used > 0` of add_form_wizard_handler_entry
wizard_times_used_once(times_used) == times_used > 0

\* The mutant: a POSTed form is saved whether it validates or not.
save_object_unvalidated(plugin_uid, sub) ==
    IF ~get_form(plugin_uid) THEN TRUE
    ELSE sub.method = "POST"

\* save_object: the plugin has no form, or the POSTed form is valid
save_object(plugin_uid, sub) ==
    IF ~get_form(plugin_uid) THEN TRUE
    ELSE sub.method = "POST" /\ sub.is_valid

\* obj.plugin_data as the view leaves it before obj.save()
obj_plugin_data(plugin_uid, sub) ==
    IF get_form(plugin_uid) THEN sub.plugin_data ELSE None

add_form_handler_entry(user, form_entry_id, form_handler_plugin_uid, sub) ==
    LET req == Request("add_form_handler_entry", user, sub.method,
                       form_entry_id, form_handler_plugin_uid,
                       sub.is_valid, sub.plugin_data)
        times_used == Count(formHandlerEntries, form_entry_id,
                            form_handler_plugin_uid)
        obj == [pk |-> pks.handler,
                form_entry |-> form_entry_id,
                plugin_uid |-> form_handler_plugin_uid,
                plugin_data |-> obj_plugin_data(form_handler_plugin_uid, sub)]
    IN
    IF ~\E f \in formEntries : f.pk = form_entry_id
    THEN Answer(req, Http404("Form entry not found."), <<>>, <<>>)
         /\ UNCHANGED <<db, storage, effects, exported, inflight>>
    ELSE IF ~plugin_allowed(form_handler_plugin_uid,
                            get_user_form_handler_plugin_uids(user))
    THEN Answer(req, Http404("Plugin does not exist or you are not allowed to use this plugin!"),
                <<>>, <<>>)
         /\ UNCHANGED <<db, storage, effects, exported, inflight>>
    ELSE IF ~allow_multiple(form_handler_plugin_uid)
            /\ times_used_once(times_used)
    THEN Answer(req, Http404("The plugin can be used only once in a form."),
                <<>>, <<Call("registry.get", 0, form_handler_plugin_uid)>>)
         /\ UNCHANGED <<db, storage, effects, exported, inflight>>
    ELSE IF save_object(form_handler_plugin_uid, sub)
    THEN /\ pks.handler <= MaxPk
         /\ formHandlerEntries' = Append(formHandlerEntries, obj)
         /\ pks' = [pks EXCEPT !.handler = @ + 1]
         /\ Answer(req, Redirect("fobi.edit_form_entry"),
                   <<Message("info", "The form handler plugin was added successfully.")>>,
                   <<Call("registry.get", 0, form_handler_plugin_uid),
                     Call("save", obj.pk, form_handler_plugin_uid)>>)
         /\ UNCHANGED <<formEntries, formElementEntries, formWizardEntries,
                        formWizardFormEntries, formWizardHandlerEntries,
                        storage, effects, exported, inflight>>
    ELSE Answer(req, Render("add_form_handler_entry_template"), <<>>,
                <<Call("registry.get", 0, form_handler_plugin_uid)>>)
         /\ UNCHANGED <<db, storage, effects, exported, inflight>>

add_form_wizard_handler_entry(user, form_wizard_entry_id, form_wizard_handler_plugin_uid, sub) ==
    LET req == Request("add_form_wizard_handler_entry", user, sub.method,
                       form_wizard_entry_id, form_wizard_handler_plugin_uid,
                       sub.is_valid, sub.plugin_data)
        times_used == Cardinality({i \in 1..Len(formWizardHandlerEntries) :
            /\ formWizardHandlerEntries[i].form_wizard_entry
                   = form_wizard_entry_id
            /\ formWizardHandlerEntries[i].plugin_uid
                   = form_wizard_handler_plugin_uid})
        obj == [pk |-> pks.wizard_handler,
                form_wizard_entry |-> form_wizard_entry_id,
                plugin_uid |-> form_wizard_handler_plugin_uid,
                plugin_data |->
                    obj_plugin_data(form_wizard_handler_plugin_uid, sub)]
    IN
    IF ~\E w \in formWizardEntries : w.pk = form_wizard_entry_id
    THEN Answer(req, Http404("Form wizard entry not found."), <<>>, <<>>)
         /\ UNCHANGED <<db, storage, effects, exported, inflight>>
    ELSE IF ~plugin_allowed(form_wizard_handler_plugin_uid,
                            get_user_form_wizard_handler_plugin_uids(user))
    THEN Answer(req, Http404("Plugin does not exist or you are not allowed to use this plugin!"),
                <<>>, <<>>)
         /\ UNCHANGED <<db, storage, effects, exported, inflight>>
    ELSE IF ~allow_multiple(form_wizard_handler_plugin_uid)
            /\ wizard_times_used_once(times_used)
    THEN Answer(req, Http404("The plugin can be used only once in a form."),
                <<>>, <<Call("registry.get", 0, form_wizard_handler_plugin_uid)>>)
         /\ UNCHANGED <<db, storage, effects, exported, inflight>>
    ELSE IF save_object(form_wizard_handler_plugin_uid, sub)
    THEN /\ pks.wizard_handler <= MaxPk
         /\ formWizardHandlerEntries' = Append(formWizardHandlerEntries, obj)
         /\ pks' = [pks EXCEPT !.wizard_handler = @ + 1]
         /\ Answer(req, Redirect("fobi.edit_form_wizard_entry"),
                   <<Message("info", "The form wizard handler plugin was added successfully.")>>,
                   <<Call("registry.get", 0, form_wizard_handler_plugin_uid),
                     Call("save", obj.pk, form_wizard_handler_plugin_uid)>>)
         /\ UNCHANGED <<formEntries, formElementEntries, formHandlerEntries,
                        formWizardEntries, formWizardFormEntries, storage,
                        effects, exported, inflight>>
    ELSE Answer(req, Render("add_form_wizard_handler_entry_template"), <<>>,
                <<Call("registry.get", 0, form_wizard_handler_plugin_uid)>>)
         /\ UNCHANGED <<db, storage, effects, exported, inflight>>

(***************************************************************************)
(* add_form_element_entry                                                  *)
(***************************************************************************)
\* The rows of one form.
OfForm(rows, form_entry_id) ==
    {rows[i] : i \in {j \in 1..Len(rows) : rows[j].form_entry = form_entry_id}}

\* The position of a row that has none (NULL).
NoPosition == 0

\* The mutant: the rows are counted instead of their maximum taken.
next_position_by_count(form_elements) == Cardinality(form_elements) + 1

\* `position = 1`, then `records['position__max'] + 1` unless the
\* aggregate is None (no row of the form has a position).
next_position(form_elements) ==
    LET positions == {e.position : e \in form_elements} \ {NoPosition} IN
    IF positions = {} THEN 1
    ELSE (CHOOSE p \in positions : \A q \in positions : q <= p) + 1

\* The field name a configuration gives its element: "c" is another
\* configuration of the name of "a".
field_name(plugin_data) == IF plugin_data = "c" THEN "a" ELSE plugin_data

\* The mutant: the names of the sibling entries are not looked at.
validate_plugin_data_unchecked(plugin_data, form_elements) == TRUE

\* form.validate_plugin_data(form_elements): no sibling entry carries the
\* field name of the posted configuration.
validate_plugin_data(plugin_data, form_elements) ==
    \A e \in form_elements :
        field_name(e.plugin_data) # field_name(plugin_data)

\* `form.validate_plugin_data(form_elements, request=request)` followed by
\* `form.is_valid()`: the posted form is valid when its own fields are and
\* the validation against the siblings has recorded no error.
form_validated(posted, form_elements) ==
    [posted EXCEPT !.is_valid =
        /\ posted.method = "POST"
        /\ posted.is_valid
        /\ validate_plugin_data(posted.plugin_data, form_elements)]

add_form_element_entry(user, form_entry_id, form_element_plugin_uid, posted) ==
    LET sub == form_validated(posted,
                              OfForm(formElementEntries, form_entry_id))
        req == Request("add_form_element_entry", user, sub.method,
                       form_entry_id, form_element_plugin_uid,
                       sub.is_valid, sub.plugin_data)
        obj == [pk |-> pks.element,
                form_entry |-> form_entry_id,
                plugin_uid |-> form_element_plugin_uid,
                position |->
                    next_position(OfForm(formElementEntries, form_entry_id)),
                plugin_data |-> obj_plugin_data(form_element_plugin_uid, sub)]
    IN
    IF ~\E f \in formEntries : f.pk = form_entry_id
    THEN Answer(req, Http404("Form entry not found."), <<>>, <<>>)
         /\ UNCHANGED <<db, storage, effects, exported, inflight>>
    ELSE IF ~plugin_allowed(form_element_plugin_uid,
                            get_user_form_field_plugin_uids(user))
    THEN Answer(req, Http404("Plugin does not exist or you are not allowed to use this plugin!"),
                <<>>, <<>>)
         /\ UNCHANGED <<db, storage, effects, exported, inflight>>
    ELSE IF save_object(form_element_plugin_uid, sub)
    THEN /\ pks.element <= MaxPk
         /\ formElementEntries' = Append(formElementEntries, obj)
         /\ pks' = [pks EXCEPT !.element = @ + 1]
         /\ Answer(req, Redirect("fobi.edit_form_entry"),
                   <<Message("info", "The form element plugin was added successfully.")>>,
                   <<Call("registry.get", 0, form_element_plugin_uid),
                     Call("save", obj.pk, form_element_plugin_uid)>>)
         /\ UNCHANGED <<formEntries, formHandlerEntries, formWizardEntries,
                        formWizardFormEntries, formWizardHandlerEntries,
                        storage, effects, exported, inflight>>
    ELSE Answer(req, Render("add_form_element_entry_template"), <<>>,
                <<Call("registry.get", 0, form_element_plugin_uid)>>)
         /\ UNCHANGED <<db, storage, effects, exported, inflight>>

(***************************************************************************)
(* edit_form_element_entry, edit_form_handler_entry,                       *)
(* edit_form_wizard_handler_entry                                          *)
(***************************************************************************)
\* The mutant: the plugin data of every row is replaced.
WithPluginDataOfAll(rows, pk, plugin_data) ==
    [i \in 1..Len(rows) |-> [rows[i] EXCEPT !.plugin_data = plugin_data]]

\* rows with the plugin data of row pk replaced
WithPluginData(rows, pk, plugin_data) ==
    [i \in 1..Len(rows) |->
        IF rows[i].pk = pk THEN [rows[i] EXCEPT !.plugin_data = plugin_data]
        ELSE rows[i]]

RowOf(rows, pk) == rows[CHOOSE i \in 1..Len(rows) : rows[i].pk = pk]

\* `.exclude(pk=form_element_entry_id).filter(form_entry=form_entry)`
edit_form_elements(rows, form_entry_id, form_element_entry_id) ==
    {e \in OfForm(rows, form_entry_id) : e.pk # form_element_entry_id}

\* The element entries `.get(pk=..., form_entry__user__pk=request.user.pk)`
\* can return.
edit_form_element_entry_lookup(user, form_element_entry_id) ==
    {e \in Range(formElementEntries) :
        /\ e.pk = form_element_entry_id
        /\ \E f \in formEntries : f.pk = e.form_entry /\ f.user = user}

edit_form_element_entry(user, form_element_entry_id, posted) ==
    LET found == edit_form_element_entry_lookup(user, form_element_entry_id)
    IN
    IF found = {}
    THEN Answer(Request("edit_form_element_entry", user, posted.method,
                        form_element_entry_id, None,
                        posted.is_valid, posted.plugin_data),
                Http404("Form element entry not found."), <<>>, <<>>)
         /\ UNCHANGED <<db, storage, effects, exported, inflight>>
    ELSE
    LET obj == CHOOSE e \in found : TRUE
        sub == form_validated(posted,
                   edit_form_elements(formElementEntries, obj.form_entry,
                                      form_element_entry_id))
        req == Request("edit_form_element_entry", user, sub.method,
                       form_element_entry_id, None,
                       sub.is_valid, sub.plugin_data)
    IN
    IF ~get_form(obj.plugin_uid)
    THEN Answer(req, Redirect("fobi.edit_form_entry"),
                <<Message("info", "The form element plugin is not configurable!")>>,
                <<Call("get_plugin", obj.pk, obj.plugin_uid)>>)
         /\ UNCHANGED <<db, storage, effects, exported, inflight>>
    ELSE IF sub.method = "POST" /\ sub.is_valid
    THEN /\ formElementEntries' =
                WithPluginData(formElementEntries, obj.pk, sub.plugin_data)
         /\ Answer(req, Redirect("fobi.edit_form_entry"),
                   <<Message("info", "The form element plugin was edited successfully.")>>,
                   <<Call("get_plugin", obj.pk, obj.plugin_uid),
                     Call("save", obj.pk, obj.plugin_uid)>>)
         /\ UNCHANGED <<formEntries, formHandlerEntries, formWizardEntries,
                        formWizardFormEntries, formWizardHandlerEntries,
                        pks, storage, effects, exported, inflight>>
    ELSE Answer(req, Render("edit_form_element_entry_template"), <<>>,
                <<Call("get_plugin", obj.pk, obj.plugin_uid)>>)
         /\ UNCHANGED <<db, storage, effects, exported, inflight>>

edit_form_handler_entry(user, form_handler_entry_id, sub) ==
    LET req == Request("edit_form_handler_entry", user, sub.method,
                       form_handler_entry_id, None,
                       sub.is_valid, sub.plugin_data)
    IN
    IF form_handler_entry_id \notin Pks(formHandlerEntries)
    THEN Answer(req, Http404("Form handler entry not found."), <<>>, <<>>)
         /\ UNCHANGED <<db, storage, effects, exported, inflight>>
    ELSE
    LET obj == RowOf(formHandlerEntries, form_handler_entry_id) IN
    IF ~get_form(obj.plugin_uid)
    THEN Answer(req, Redirect("fobi.edit_form_entry"),
                <<Message("info", "The form handler plugin is not configurable!")>>,
                <<Call("get_plugin", obj.pk, obj.plugin_uid)>>)
         /\ UNCHANGED <<db, storage, effects, exported, inflight>>
    ELSE IF sub.method = "POST" /\ sub.is_valid
    THEN /\ formHandlerEntries' =
                WithPluginData(formHandlerEntries, obj.pk, sub.plugin_data)
         /\ Answer(req, Redirect("fobi.edit_form_entry"),
                   <<Message("info", "The form handler plugin was edited successfully.")>>,
                   <<Call("get_plugin", obj.pk, obj.plugin_uid),
                     Call("save", obj.pk, obj.plugin_uid)>>)
         /\ UNCHANGED <<formEntries, formElementEntries, formWizardEntries,
                        formWizardFormEntries, formWizardHandlerEntries,
                        pks, storage, effects, exported, inflight>>
    ELSE Answer(req, Render("edit_form_handler_entry_template"), <<>>,
                <<Call("get_plugin", obj.pk, obj.plugin_uid)>>)
         /\ UNCHANGED <<db, storage, effects, exported, inflight>>

edit_form_wizard_handler_entry(user, form_wizard_handler_entry_id, sub) ==
    LET req == Request("edit_form_wizard_handler_entry", user, sub.method,
                       form_wizard_handler_entry_id, None,
                       sub.is_valid, sub.plugin_data)
    IN
    IF form_wizard_handler_entry_id \notin Pks(formWizardHandlerEntries)
    THEN Answer(req, Http404("Form wizard handler entry not found."),
                <<>>, <<>>)
         /\ UNCHANGED <<db, storage, effects, exported, inflight>>
    ELSE
    LET obj == RowOf(formWizardHandlerEntries, form_wizard_handler_entry_id)
    IN
    IF ~get_form(obj.plugin_uid)
    THEN Answer(req, Redirect("fobi.edit_form_wizard_entry"),
                <<Message("info", "The form wizard handler plugin is not configurable!")>>,
                <<Call("get_plugin", obj.pk, obj.plugin_uid)>>)
         /\ UNCHANGED <<db, storage, effects, exported, inflight>>
    ELSE IF sub.method = "POST" /\ sub.is_valid
    THEN /\ formWizardHandlerEntries' =
                WithPluginData(formWizardHandlerEntries, obj.pk,
                               sub.plugin_data)
         /\ Answer(req, Redirect("fobi.edit_form_wizard_entry"),
                   <<Message("info", "The form wizard handler plugin was edited successfully.")>>,
                   <<Call("get_plugin", obj.pk, obj.plugin_uid),
                     Call("save", obj.pk, obj.plugin_uid)>>)
         /\ UNCHANGED <<formEntries, formElementEntries, formHandlerEntries,
                        formWizardEntries, formWizardFormEntries,
                        pks, storage, effects, exported, inflight>>
    ELSE Answer(req, Render("edit_form_handler_entry_template"), <<>>,
                <<Call("get_plugin", obj.pk, obj.plugin_uid)>>)
         /\ UNCHANGED <<db, storage, effects, exported, inflight>>

(***************************************************************************)
(* _delete_plugin_entry, _delete_wizard_plugin_entry and their callers     *)
(***************************************************************************)
\* The mutant: the row is removed without the cleanup hook.
delete_plugin_entry_no_hook(obj) ==
    <<Call("get_plugin", obj.pk, obj.plugin_uid),
      Call("delete", obj.pk, obj.plugin_uid)>>

\* What _delete_plugin_entry does with the row it found, in order:
\* obj.get_plugin(), plugin._delete_plugin_data(), obj.delete().
_delete_plugin_entry(obj) ==
    <<Call("get_plugin", obj.pk, obj.plugin_uid),
      Call("_delete_plugin_data", obj.pk, obj.plugin_data),
      Call("delete", obj.pk, obj.plugin_uid)>>

\* The same three calls of _delete_wizard_plugin_entry.
_delete_wizard_plugin_entry(obj) ==
    <<Call("get_plugin", obj.pk, obj.plugin_uid),
      Call("_delete_plugin_data", obj.pk, obj.plugin_data),
      Call("delete", obj.pk, obj.plugin_uid)>>

\* The rows that are left once the obj.delete() calls of `calls` are done.
AfterDelete(rows, calls) ==
    SelectRows(rows, Pks(rows) \ {calls[i].pk : i \in
                   {j \in 1..Len(calls) : calls[j].call = "delete"}})

delete_form_handler_entry(user, form_handler_entry_id) ==
    LET req == Request("delete_form_handler_entry", user, "GET",
                       form_handler_entry_id, None, FALSE, None)
        found == {i \in 1..Len(formHandlerEntries) :
                    /\ formHandlerEntries[i].pk = form_handler_entry_id
                    /\ \E f \in formEntries :
                          /\ f.pk = formHandlerEntries[i].form_entry
                          /\ f.user = user}
    IN
    IF found = {}
    THEN Answer(req, Http404("form handler entry not found."), <<>>, <<>>)
         /\ UNCHANGED <<db, storage, effects, exported, inflight>>
    ELSE
    LET obj == RowOf(formHandlerEntries, form_handler_entry_id)
        calls == _delete_plugin_entry(obj)
    IN /\ formHandlerEntries' = AfterDelete(formHandlerEntries, calls)
       /\ Answer(req, Redirect("fobi.edit_form_entry"),
                 <<Message("info", "The form handler plugin was deleted successfully.")>>,
                 calls)
       /\ UNCHANGED <<formEntries, formElementEntries, formWizardEntries,
                      formWizardFormEntries, formWizardHandlerEntries,
                      pks, storage, effects, exported, inflight>>

delete_form_element_entry(user, form_element_entry_id) ==
    LET req == Request("delete_form_element_entry", user, "GET",
                       form_element_entry_id, None, FALSE, None)
        found == {i \in 1..Len(formElementEntries) :
                    /\ formElementEntries[i].pk = form_element_entry_id
                    /\ \E f \in formEntries :
                          /\ f.pk = formElementEntries[i].form_entry
                          /\ f.user = user}
    IN
    IF found = {}
    THEN Answer(req, Http404("form element entry not found."), <<>>, <<>>)
         /\ UNCHANGED <<db, storage, effects, exported, inflight>>
    ELSE
    LET obj == RowOf(formElementEntries, form_element_entry_id)
        calls == _delete_plugin_entry(obj)
    IN /\ formElementEntries' = AfterDelete(formElementEntries, calls)
       /\ Answer(req, Redirect("fobi.edit_form_entry"),
                 <<Message("info", "The form element plugin was deleted successfully.")>>,
                 calls)
       /\ UNCHANGED <<formEntries, formHandlerEntries, formWizardEntries,
                      formWizardFormEntries, formWizardHandlerEntries,
                      pks, storage, effects, exported, inflight>>

delete_form_wizard_handler_entry(user, form_wizard_handler_entry_id) ==
    LET req == Request("delete_form_wizard_handler_entry", user, "GET",
                       form_wizard_handler_entry_id, None, FALSE, None)
        found == {i \in 1..Len(formWizardHandlerEntries) :
                    /\ formWizardHandlerEntries[i].pk
                          = form_wizard_handler_entry_id
                    /\ \E w \in formWizardEntries :
                          /\ w.pk = formWizardHandlerEntries[i].form_wizard_entry
                          /\ w.user = user}
    IN
    IF found = {}
    THEN Answer(req, Http404("form wizard handler entry not found."),
                <<>>, <<>>)
         /\ UNCHANGED <<db, storage, effects, exported, inflight>>
    ELSE
    LET obj == RowOf(formWizardHandlerEntries, form_wizard_handler_entry_id)
        calls == _delete_wizard_plugin_entry(obj)
    IN /\ formWizardHandlerEntries' =
              AfterDelete(formWizardHandlerEntries, calls)
       /\ Answer(req, Redirect("fobi.edit_form_wizard_entry"),
                 <<Message("info", "The form wizard handler plugin was deleted successfully.")>>,
                 calls)
       /\ UNCHANGED <<formEntries, formElementEntries, formHandlerEntries,
                      formWizardEntries, formWizardFormEntries,
                      pks, storage, effects, exported, inflight>>

(***************************************************************************)
(* view_form_entry                                                         *)
(***************************************************************************)
\* The ordered query: rows by ascending position, equal positions by pk.
RECURSIVE SortByPosition(_)
SortByPosition(rows) ==
    IF rows = {} THEN <<>>
    ELSE LET first == CHOOSE r \in rows : \A o \in rows :
                          \/ r.position < o.position
                          \/ (r.position = o.position /\ r.pk <= o.pk)
         IN <<first>> \o SortByPosition(rows \ {first})

\* assemble_form_class: one field per element entry of the form whose
\* plugin is registered, in the order of the ordered query (by position).
assemble_form_class(form_element_entries) ==
    SortByPosition({e \in form_element_entries :
                        e.plugin_uid \in FormElementUids})

\* The mutant: the runner gives up at the first handler that fails.
RECURSIVE run_form_handlers_abort(_, _)
run_form_handlers_abort(form_handlers, failing) ==
    IF form_handlers = <<>>
    THEN [responses |-> <<>>, errors |-> <<>>, calls |-> <<>>]
    ELSE LET h == Head(form_handlers) IN
         IF h.pk \in failing
         THEN [responses |-> <<>>, errors |-> <<h.pk>>,
               calls |-> <<Call("run", h.pk, h.plugin_uid)>>]
         ELSE LET rest == run_form_handlers_abort(Tail(form_handlers),
                                                  failing)
              IN [responses |-> <<h.pk>> \o rest.responses,
                  errors |-> rest.errors,
                  calls |-> <<Call("run", h.pk, h.plugin_uid)>>
                                \o rest.calls]

\* run_form_handlers: every handler entry of the form is run, in stored
\* order, inside an isolating boundary; a success goes to responses, a
\* failure to errors, and the next handler is run either way.
RECURSIVE run_form_handlers(_, _)
run_form_handlers(form_handlers, failing) ==
    IF form_handlers = <<>>
    THEN [responses |-> <<>>, errors |-> <<>>, calls |-> <<>>]
    ELSE LET h == Head(form_handlers)
             rest == run_form_handlers(Tail(form_handlers), failing)
         IN [responses |-> IF h.pk \in failing THEN rest.responses
                           ELSE <<h.pk>> \o rest.responses,
             errors |-> IF h.pk \in failing THEN <<h.pk>> \o rest.errors
                        ELSE rest.errors,
             calls |-> <<Call("run", h.pk, h.plugin_uid)>> \o rest.calls]

\* The mutant: the handler errors are dropped instead of being flashed.
handler_error_warnings_none(handler_errors) == <<>>

\* `for handler_error in handler_errors: messages.warning(...)`
handler_error_warnings(handler_errors) ==
    [i \in 1..Len(handler_errors) |->
        [level |-> "warning", text |-> "Error occurred: {0}.",
         arg |-> handler_errors[i]]]

\* `form = FormClass(request.POST, request.FILES)`: the bound form, in its
\* first state.
PostedForm == 1

\* The form a callback stage or the submission hooks return: a state of
\* the form that no earlier stage has seen.
returned_form(form) == form + 1

\* The mutant: the returned form is dropped and the one given is kept.
form_not_rebound(given, returned) == given

\* `form = fire_form_callbacks(...)`, `form = submit_plugin_form_data(...)`:
\* the name form is bound to what the stage returned.
form_rebound(given, returned) == returned

\* The calls, each handed the form.
WithForm(calls, form) ==
    [i \in 1..Len(calls) |-> [calls[i] EXCEPT !.form = form]]

\* The form entries `FormEntry.get(**kwargs)` can return: the slug is
\* given, and is_public = True is added for a user who is not logged in.
view_form_entry_lookup(user, form_entry_slug) ==
    {f \in formEntries :
        /\ f.slug = form_entry_slug
        /\ (user = AnonymousUser => f.is_public)}

\* The mutant: every POST is taken down the valid branch.
post_is_valid_unchecked(method, is_valid) == method = "POST"

\* `if 'POST' == request.method:` ... `if form.is_valid():`
post_is_valid(method, is_valid) == method = "POST" /\ is_valid

view_form_entry(user, form_entry_slug, method, is_valid, failing) ==
    LET req == [Request("view_form_entry", user, method, 0, form_entry_slug,
                        is_valid, None) EXCEPT !.failing = failing]
        found == view_form_entry_lookup(user, form_entry_slug)
    IN
    IF found = {}
    THEN Answer(req, Http404("Form entry not found."), <<>>, <<>>)
         /\ UNCHANGED <<db, storage, effects, exported, inflight>>
    ELSE
    LET form_entry == CHOOSE f \in found : TRUE
        form_element_entries == OfForm(formElementEntries, form_entry.pk)
        fields == assemble_form_class(form_element_entries)
        form_handlers == SelectRows(formHandlerEntries,
            {h.pk : h \in OfForm(formHandlerEntries, form_entry.pk)})
        ran == run_form_handlers(form_handlers, failing)
        form == PostedForm
        form_before_submit == form_rebound(form, returned_form(form))
        form_submitted == form_rebound(form_before_submit,
                                       returned_form(form_before_submit))
        form_valid == form_rebound(form_submitted,
                                   returned_form(form_submitted))
    IN
    /\ request' = req
    /\ UNCHANGED <<db, storage, effects, exported, inflight>>
    /\ IF post_is_valid(method, is_valid)
       THEN /\ trace' =
                 <<Call("assemble_form_class", form_entry.pk, None),
                   FormCall("fire_form_callbacks", 0, "CALLBACK_BEFORE_FORM_VALIDATION", form),
                   FormCall("is_valid", 0, "True", form),
                   FormCall("fire_form_callbacks", 0, "CALLBACK_FORM_VALID_BEFORE_SUBMIT_PLUGIN_FORM_DATA", form),
                   FormCall("submit_plugin_form_data", form_entry.pk, None, form_before_submit),
                   FormCall("fire_form_callbacks", 0, "CALLBACK_FORM_VALID", form_submitted),
                   FormCall("run_form_handlers", form_entry.pk, None, form_valid)>>
                 \o WithForm(ran.calls, form_valid) \o
                 <<FormCall("fire_form_callbacks", 0, "CALLBACK_FORM_VALID_AFTER_FORM_HANDLERS", form_valid)>>
            /\ messages' =
                 handler_error_warnings(ran.errors)
                 \o <<Message("info", "Form was submitted successfully.")>>
            /\ result' = [fields |-> fields, responses |-> ran.responses,
                          errors |-> ran.errors]
            /\ response' = Redirect("fobi.form_entry_submitted")
       ELSE IF method = "POST"
       THEN /\ trace' =
                 <<Call("assemble_form_class", form_entry.pk, None),
                   FormCall("fire_form_callbacks", 0, "CALLBACK_BEFORE_FORM_VALIDATION", form),
                   FormCall("is_valid", 0, "False", form),
                   FormCall("fire_form_callbacks", 0, "CALLBACK_FORM_INVALID", form)>>
            /\ messages' = <<>>
            /\ result' = [fields |-> fields, responses |-> <<>>,
                          errors |-> <<>>]
            /\ response' = Render("view_form_entry_template")
       ELSE /\ trace' = <<Call("assemble_form_class", form_entry.pk, None)>>
            /\ messages' = <<>>
            /\ result' = [fields |-> fields, responses |-> <<>>,
                          errors |-> <<>>]
            /\ response' = Render("view_form_entry_template")

(***************************************************************************)
(* import_form_entry                                                       *)
(***************************************************************************)

\* FormEntry.slug is unique: saving a second form with a taken slug fails.
slug_taken(slug) == \E f \in formEntries : f.slug = slug

\* `form_element_plugin_registry._registry.get(plugin_uid, None)`
element_registered(plugin_uid) == plugin_uid \in FormElementUids

\* `form_handler_plugin_registry._registry.get(plugin_uid, None)`
handler_registered(plugin_uid) == plugin_uid \in FormHandlerUids

\* The mutant: the first unregistered item ends the loop.
RECURSIVE import_form_elements_abort(_, _, _)
import_form_elements_abort(form_elements_data, form_entry_pk, pk) ==
    IF form_elements_data = <<>> THEN [rows |-> <<>>, messages |-> <<>>]
    ELSE LET d == Head(form_elements_data) IN
         IF element_registered(d.plugin_uid)
         THEN LET rest == import_form_elements_abort(
                              Tail(form_elements_data), form_entry_pk, pk + 1)
              IN [rows |-> <<[pk |-> pk, form_entry |-> form_entry_pk,
                              plugin_uid |-> d.plugin_uid,
                              position |-> d.position,
                              plugin_data |-> d.plugin_data]>> \o rest.rows,
                  messages |-> rest.messages]
         ELSE [rows |-> <<>>,
               messages |-> <<Message("warning",
                                "Plugin is missing in the system.")>>]

RECURSIVE import_form_elements(_, _, _)
\* The loop over form_elements_data: a registered item is saved as it is
\* in the document, an unregistered one is reported in a warning.
import_form_elements(form_elements_data, form_entry_pk, pk) ==
    IF form_elements_data = <<>> THEN [rows |-> <<>>, messages |-> <<>>]
    ELSE LET d == Head(form_elements_data) IN
         IF element_registered(d.plugin_uid)
         THEN LET rest == import_form_elements(Tail(form_elements_data),
                                               form_entry_pk, pk + 1)
              IN [rows |-> <<[pk |-> pk, form_entry |-> form_entry_pk,
                              plugin_uid |-> d.plugin_uid,
                              position |-> d.position,
                              plugin_data |-> d.plugin_data]>> \o rest.rows,
                  messages |-> rest.messages]
         ELSE LET rest == import_form_elements(Tail(form_elements_data),
                                               form_entry_pk, pk)
              IN [rows |-> rest.rows,
                  messages |->
                    <<Message("warning",
                        IF d.plugin_uid # None
                        THEN "Plugin is missing in the system."
                        ELSE "Some essential plugin data missing in the JSON import.")>>
                    \o rest.messages]

RECURSIVE import_form_handlers(_, _, _, _)
\* The loop over form_handlers_data: a registered item is saved; for an
\* unregistered one the else branch reads `form_handler.get(...)`, where
\* form_handler is not the item but the entry saved last (or nothing yet),
\* and that raises.
import_form_handlers(form_handlers_data, form_entry_pk, pk, saved) ==
    IF form_handlers_data = <<>> THEN [rows |-> <<>>, raised |-> None]
    ELSE LET d == Head(form_handlers_data) IN
         IF handler_registered(d.plugin_uid)
         THEN LET rest == import_form_handlers(Tail(form_handlers_data),
                                               form_entry_pk, pk + 1, TRUE)
              IN [rows |-> <<[pk |-> pk, form_entry |-> form_entry_pk,
                              plugin_uid |-> d.plugin_uid,
                              plugin_data |-> d.plugin_data]>> \o rest.rows,
                  raised |-> rest.raised]
         ELSE [rows |-> <<>>,
               raised |-> IF saved THEN "AttributeError"
                          ELSE "UnboundLocalError"]

import_form_entry(user, method, is_valid, form_data) ==
    LET req == [Request("import_form_entry", user, method, 0, None,
                        is_valid, None) EXCEPT !.form_data = form_data]
        form_entry == [pk |-> pks.form, user |-> user,
                       slug |-> form_data.slug,
                       is_public |-> form_data.is_public]
        elements == import_form_elements(form_data.form_elements,
                                         form_entry.pk, pks.element)
        handlers == import_form_handlers(form_data.form_handlers,
                                         form_entry.pk, pks.handler, FALSE)
    IN
    IF ~(method = "POST" /\ is_valid)
    THEN Answer(req, Render("import_form_entry_template"), <<>>, <<>>)
         /\ UNCHANGED <<db, storage, effects, exported, inflight>>
    ELSE IF slug_taken(form_data.slug)
    THEN Answer(req, Raised("IntegrityError"), <<>>,
                <<Call("save", 0, form_data.slug)>>)
         /\ UNCHANGED <<db, storage, effects, exported, inflight>>
    ELSE /\ pks.form <= MaxPk
         /\ formEntries' = formEntries \cup {form_entry}
         /\ formElementEntries' = formElementEntries \o elements.rows
         /\ formHandlerEntries' = formHandlerEntries \o handlers.rows
         /\ pks' = [pks EXCEPT !.form = @ + 1,
                               !.element = @ + Len(elements.rows),
                               !.handler = @ + Len(handlers.rows)]
         /\ IF handlers.raised # None
            THEN Answer(req, Raised(handlers.raised), elements.messages,
                        <<Call("save", form_entry.pk, form_data.slug)>>)
            ELSE Answer(req, Redirect("fobi.edit_form_entry"),
                        elements.messages \o
                        <<Message("info", "The form was imported successfully.")>>,
                        <<Call("save", form_entry.pk, form_data.slug)>>)
         /\ UNCHANGED <<formWizardEntries, formWizardFormEntries,
                        formWizardHandlerEntries, storage, effects, exported, inflight>>

\* Sequences over S of length at most n.
SeqUpTo(S, n) == UNION {[1..k -> S] : k \in 0..n}

\* The items a document can list.
ElementItems ==
    [plugin_uid : FormElementUids \cup {GhostUid},
     position : 1..MaxPosition, plugin_data : {"a"}]

HandlerItems ==
    {[plugin_uid |-> "db_store", plugin_data |-> None],
     [plugin_uid |-> "mail", plugin_data |-> "a"],
     [plugin_uid |-> GhostUid, plugin_data |-> None]}

\* Documents that list registered elements only, under a slug that is free.
ElementDocuments ==
    [slug : {"s3"}, is_public : {TRUE}, form_elements :
        SeqUpTo({d \in ElementItems : d.plugin_uid = "text"}, MaxDocLen),
     form_handlers : {<<>>}]

\* Documents that list handlers only, under a slug that is free.
HandlerDocuments ==
    [slug : {"s3"}, is_public : {FALSE}, form_elements : {<<>>},
     form_handlers : SeqUpTo(HandlerItems, MaxDocLen)]

\* Documents that list elements and handlers, under a slug that is free.
Documents ==
    [slug : {"s3"}, is_public : {FALSE},
     form_elements : SeqUpTo(ElementItems, MaxDocLen),
     form_handlers : SeqUpTo(HandlerItems, MaxDocLen)]

(***************************************************************************)
(* The builder: one user's forms and a wizard, and the operations on their *)
(* handler entries.                                                        *)
(***************************************************************************)
InitDb ==
    /\ formEntries = {[pk |-> 1, user |-> "u1", slug |-> "s1",
                       is_public |-> TRUE],
                      [pk |-> 2, user |-> "u2", slug |-> "s2",
                       is_public |-> FALSE]}
    /\ formElementEntries = <<>>
    /\ formHandlerEntries = <<>>
    /\ formWizardEntries = {[pk |-> 1, user |-> "u1", slug |-> "w1",
                             is_public |-> TRUE]}
    /\ formWizardFormEntries = <<>>
    /\ formWizardHandlerEntries = <<>>
    /\ pks = [form |-> 3, element |-> 1, handler |-> 1, wizard |-> 2,
              wizard_form |-> 1, wizard_handler |-> 1]

InitRequest ==
    /\ storage = EmptyStorage
    /\ request = NoRequest
    /\ response = NoResponse
    /\ messages = <<>>
    /\ trace = <<>>
    /\ result = NoResult
    /\ effects = NoEffects
    /\ exported = NoFile
    /\ inflight = [p \in Workers |-> NoFlight]

Init == InitDb /\ InitRequest

(***************************************************************************)
(* SpecOnce: handlers are added to two forms and to a wizard.              *)
(***************************************************************************)
\* What the browser sends to the add views here.
AddSubmissions ==
    {[method |-> "GET", is_valid |-> FALSE, plugin_data |-> None],
     [method |-> "POST", is_valid |-> FALSE, plugin_data |-> None],
     [method |-> "POST", is_valid |-> TRUE, plugin_data |-> "a"]}

AddFormHandler ==
    \E id \in 1..2, uid \in FormHandlerUids, sub \in AddSubmissions :
        add_form_handler_entry("u1", id, uid, sub)

AddFormWizardHandler ==
    \E uid \in FormWizardHandlerUids, sub \in AddSubmissions :
        add_form_wizard_handler_entry("u1", 1, uid, sub)

NextOnce ==
    \/ AddFormHandler
    \/ AddFormWizardHandler

SpecOnce == Init /\ [][NextOnce]_vars

\* C3: a further add request for a handler plugin with allow_multiple =
\* false that the form (or wizard) already holds ends in Http404 and leaves
\* the stored handler entries as they were.
C3_SecondSingleHandlerRejected ==
    [][/\ (/\ request'.view = "add_form_handler_entry"
           /\ ~allow_multiple(request'.uid)
           /\ Count(formHandlerEntries, request'.id, request'.uid) >= 1)
          => (/\ response'.status = "Http404"
              /\ formHandlerEntries' = formHandlerEntries)
       /\ (/\ request'.view = "add_form_wizard_handler_entry"
           /\ ~allow_multiple(request'.uid)
           /\ \E i \in 1..Len(formWizardHandlerEntries) :
                 /\ formWizardHandlerEntries[i].form_wizard_entry
                       = request'.id
                 /\ formWizardHandlerEntries[i].plugin_uid = request'.uid)
          => (/\ response'.status = "Http404"
              /\ formWizardHandlerEntries' = formWizardHandlerEntries)
      ]_vars

\* C3 witness: a second add of db_store to a form that holds one was just
\* answered with the only-once Http404, with a wizard holding one as well.
C3_Witness ==
    /\ request.view = "add_form_handler_entry"
    /\ request.uid = "db_store"
    /\ response = Http404("The plugin can be used only once in a form.")
    /\ Count(formHandlerEntries, request.id, "db_store") = 1
    /\ \E i \in 1..Len(formWizardHandlerEntries) :
          formWizardHandlerEntries[i].plugin_uid = "db_store"

(***************************************************************************)
(* SpecDelete: entries are added to u1's form and wizard and deleted by    *)
(* their owner or by somebody else.                                        *)
(***************************************************************************)
PostValid == [method |-> "POST", is_valid |-> TRUE, plugin_data |-> "a"]

\* A valid POST of an element configuration whose field name no element
\* entry made so far carries.
FreshNames == <<"a", "b", "d", "e", "f", "g">>
PostFresh ==
    [method |-> "POST", is_valid |-> TRUE,
     plugin_data |-> IF pks.element \in DOMAIN FreshNames
                     THEN FreshNames[pks.element] ELSE "g"]

DeleteAddFormHandler ==
    \E uid \in FormHandlerUids :
        add_form_handler_entry("u1", 1, uid, PostValid)

DeleteAddFormWizardHandler ==
    \E uid \in FormWizardHandlerUids :
        add_form_wizard_handler_entry("u1", 1, uid, PostValid)

DeleteFormHandler ==
    \E user \in Users, id \in 1..MaxPk :
        delete_form_handler_entry(user, id)

DeleteFormWizardHandler ==
    \E user \in Users, id \in 1..MaxPk :
        delete_form_wizard_handler_entry(user, id)

NextDelete ==
    \/ DeleteAddFormHandler
    \/ DeleteAddFormWizardHandler
    \/ DeleteFormHandler
    \/ DeleteFormWizardHandler

SpecDelete == Init /\ [][NextDelete]_vars

\* The rows of `before` that are not in `after` any more.
Removed(before, after) == Pks(before) \ Pks(after)

\* In trace t the cleanup hook of row pk is called, and obj.delete() comes
\* only after it.
HookBeforeDelete(t, pk) ==
    \E i \in 1..Len(t) :
        /\ t[i].call = "_delete_plugin_data"
        /\ t[i].pk = pk
        /\ \A j \in 1..Len(t) :
              (t[j].call = "delete" /\ t[j].pk = pk) => i < j

\* C10: whenever a delete-plugin view removes an entry row, it has called
\* the plugin's cleanup hook on that row's plugin data before the removal.
C10_CleanupHookBeforeDelete ==
    [][/\ request'.view \in {"delete_form_element_entry",
                             "delete_form_handler_entry"}
          => \A pk \in Removed(formElementEntries, formElementEntries')
                   \cup Removed(formHandlerEntries, formHandlerEntries') :
                 /\ HookBeforeDelete(trace', pk)
                 /\ \E i \in 1..Len(trace') :
                       /\ trace'[i].call = "_delete_plugin_data"
                       /\ trace'[i].pk = pk
                       /\ trace'[i].arg =
                            IF request'.view = "delete_form_element_entry"
                            THEN RowOf(formElementEntries, pk).plugin_data
                            ELSE RowOf(formHandlerEntries, pk).plugin_data
       /\ request'.view = "delete_form_wizard_handler_entry"
          => \A pk \in Removed(formWizardHandlerEntries,
                               formWizardHandlerEntries') :
                 /\ HookBeforeDelete(trace', pk)
                 /\ \E i \in 1..Len(trace') :
                       /\ trace'[i].call = "_delete_plugin_data"
                       /\ trace'[i].pk = pk
                       /\ trace'[i].arg =
                            RowOf(formWizardHandlerEntries, pk).plugin_data
      ]_vars

\* C10 witness: a handler entry with plugin data was just deleted by its
\* owner, after a wizard handler entry had been deleted as well.
C10_Witness ==
    /\ request.view = "delete_form_handler_entry"
    /\ response.status = "redirect"
    /\ request.id \notin Pks(formHandlerEntries)
    /\ \E i \in 1..Len(trace) :
          trace[i].call = "delete" /\ trace[i].pk = request.id
    /\ \E i \in 1..Len(trace) :
          trace[i].call = "_delete_plugin_data" /\ trace[i].arg = "a"
    /\ pks.wizard_handler > 1 /\ formWizardHandlerEntries = <<>>

(***************************************************************************)
(* SpecSubmit: handlers are added to u1's public form, and the form is     *)
(* viewed and submitted while any of its handlers may fail.                *)
(***************************************************************************)
SubmitAddFormHandler ==
    \E uid \in FormHandlerUids :
        add_form_handler_entry("u1", 1, uid, PostValid)

SubmitViewFormEntry ==
    \E user \in {"u1", AnonymousUser}, slug \in {"s1", "s2"},
       method \in {"GET", "POST"}, is_valid \in BOOLEAN,
       failing \in SUBSET (1..MaxPk) :
        /\ failing \subseteq Pks(formHandlerEntries)
        /\ (method = "GET" => ~is_valid)
        /\ (~(method = "POST" /\ is_valid) => failing = {})
        /\ view_form_entry(user, slug, method, is_valid, failing)

NextSubmit ==
    \/ SubmitAddFormHandler
    \/ SubmitViewFormEntry

SpecSubmit == Init /\ [][NextSubmit]_vars

\* The last request was a valid POST to view_form_entry that found its form.
ValidSubmission ==
    /\ request.view = "view_form_entry"
    /\ request.method = "POST"
    /\ request.is_valid
    /\ response.status # "Http404"

\* The handler entries of the form the last request was about.
SubmittedHandlers ==
    {h \in Range(formHandlerEntries) :
        \E f \in formEntries : f.slug = request.uid /\ f.pk = h.form_entry}

\* C1: in a run in which some handlers fail, every handler entry of the
\* form is still run (once, in stored order), each handler that did not
\* fail appears in responses and each one that failed appears in errors.
C1_FailingHandlerDoesNotStopOthers ==
    ValidSubmission =>
        /\ \A h \in SubmittedHandlers :
              /\ Cardinality({i \in 1..Len(trace) :
                    trace[i].call = "run" /\ trace[i].pk = h.pk}) = 1
              /\ h.pk \notin request.failing
                    => \E i \in 1..Len(result.responses) :
                          result.responses[i] = h.pk
              /\ h.pk \in request.failing
                    => \E i \in 1..Len(result.errors) :
                          result.errors[i] = h.pk
        /\ Len(result.responses) + Len(result.errors)
              = Cardinality(SubmittedHandlers)

\* C1 witness: of three handlers the second one failed and the other two
\* are in responses.
C1_Witness ==
    /\ ValidSubmission
    /\ Len(formHandlerEntries) >= 3
    /\ request.failing = {formHandlerEntries[2].pk}
    /\ result.responses = <<formHandlerEntries[1].pk,
                            formHandlerEntries[3].pk>>
    /\ result.errors = <<formHandlerEntries[2].pk>>

\* C2: a valid POST whose handler run returned errors still completes:
\* every error is flashed as a warning, the VALID_AFTER_HANDLERS callbacks
\* are fired after the run, and the answer is the redirect to the
\* form-submitted page.
C2_HandlerErrorsAreWarnings ==
    (ValidSubmission /\ result.errors # <<>>) =>
        /\ response = Redirect("fobi.form_entry_submitted")
        /\ \A i \in 1..Len(result.errors) :
              \E j \in 1..Len(messages) :
                  /\ messages[j].level = "warning"
                  /\ messages[j].arg = result.errors[i]
        /\ \E i, j \in 1..Len(trace) :
              /\ trace[i].call = "run_form_handlers"
              /\ i < j
              /\ trace[j].call = "fire_form_callbacks"
              /\ trace[j].arg = "CALLBACK_FORM_VALID_AFTER_FORM_HANDLERS"

\* C2 witness: a submission in which two handlers failed was redirected.
C2_Witness ==
    /\ ValidSubmission
    /\ Len(result.errors) = 2
    /\ response.status = "redirect"
    /\ request.user = AnonymousUser

(***************************************************************************)
(* SpecHandlers: u1 adds, edits and deletes the handlers of a form and     *)
(* imports forms from documents that list handlers.                        *)
(***************************************************************************)
HandlersAdd ==
    \E uid \in FormHandlerUids :
        add_form_handler_entry("u1", 1, uid, PostValid)

HandlersEdit ==
    \E id \in 1..MaxPk :
        edit_form_handler_entry("u1", id,
            [method |-> "POST", is_valid |-> TRUE, plugin_data |-> "b"])

HandlersDelete ==
    \E id \in 1..MaxPk : delete_form_handler_entry("u1", id)

HandlersImport ==
    \E form_data \in HandlerDocuments :
        import_form_entry("u1", "POST", TRUE, form_data)

NextHandlers ==
    \/ HandlersAdd
    \/ HandlersEdit
    \/ HandlersDelete
    \/ HandlersImport

SpecHandlers == Init /\ [][NextHandlers]_vars

\* C4: every form holds at most one handler entry of any handler plugin
\* whose allow_multiple is false.
C4_SingleHandlerAtMostOncePerForm ==
    \A f \in formEntries, uid \in FormHandlerUids :
        ~allow_multiple(uid) => Count(formHandlerEntries, f.pk, uid) <= 1

(***************************************************************************)
(* SpecFields: u1 adds elements to a form, imports forms from documents    *)
(* that list elements, and the forms are viewed.                           *)
(***************************************************************************)
FieldsAdd ==
    \E uid \in FormElementUids :
        add_form_element_entry("u1", 1, uid, PostFresh)

FieldsImport ==
    \E form_data \in ElementDocuments :
        import_form_entry("u1", "POST", TRUE, form_data)

FieldsView ==
    \E user \in {"u1", AnonymousUser}, slug \in {"s1", "s3"} :
        view_form_entry(user, slug, "GET", FALSE, {})

NextFields ==
    \/ FieldsAdd
    \/ FieldsImport
    \/ FieldsView

SpecFields == Init /\ [][NextFields]_vars

wizard_lookup(user, form_wizard_entry_slug) ==
    {w \in formWizardEntries : w.slug = form_wizard_entry_slug}

\* get_initial_wizard_data, form_list: the form entries of the wizard's
\* steps, in step order.  A step is named by the pk of its form entry.
get_form_list(form_wizard_entry_id) ==
    LET rows == SortByPosition({r \in Range(formWizardFormEntries) :
                    r.form_wizard_entry = form_wizard_entry_id})
    IN [i \in 1..Len(rows) |-> rows[i].form_entry]

\* The mutant: a step that does not validate is passed over and the walk
\* goes on to the next step.
RECURSIVE render_done_loop_skip_invalid(_, _, _)
render_done_loop_skip_invalid(form_list, step_data, invalid) ==
    IF form_list = <<>>
    THEN [failed |-> 0, submitted |-> {}, calls |-> <<>>]
    ELSE LET form_key == Head(form_list)
             rest == render_done_loop_skip_invalid(Tail(form_list),
                                                   step_data, invalid)
         IN IF form_key \notin step_data \/ form_key \in invalid
            THEN [failed |-> 0, submitted |-> rest.submitted,
                  calls |-> <<Call("is_valid", form_key, "False")>>
                                \o rest.calls]
            ELSE [failed |-> 0,
                  submitted |-> {form_key} \cup rest.submitted,
                  calls |-> <<Call("is_valid", form_key, "True"),
                              Call("submit_plugin_form_data", form_key,
                                   None)>> \o rest.calls]

\* render_done, the walk through the form list: each step's stored data is
\* validated again; the first step that does not validate ends the walk
\* (failed names it, 0 when there is none); a step that validates has its
\* plugin processors fired at once, before the next step is looked at.
RECURSIVE render_done_loop(_, _, _)
render_done_loop(form_list, step_data, invalid) ==
    IF form_list = <<>>
    THEN [failed |-> 0, submitted |-> {}, calls |-> <<>>]
    ELSE LET form_key == Head(form_list) IN
         IF form_key \notin step_data \/ form_key \in invalid
         THEN [failed |-> form_key, submitted |-> {},
               calls |-> <<Call("is_valid", form_key, "False")>>]
         ELSE LET rest == render_done_loop(Tail(form_list), step_data,
                                           invalid)
              IN [failed |-> rest.failed,
                  submitted |-> {form_key} \cup rest.submitted,
                  calls |-> <<Call("is_valid", form_key, "True"),
                              Call("submit_plugin_form_data", form_key,
                                   None)>> \o rest.calls]

\* run_form_wizard_handlers: the handler runner over the wizard's handler
\* entries.
run_form_wizard_handlers(form_wizard_handlers, failing) ==
    run_form_handlers(form_wizard_handlers, failing)

\* The mutant: the storage is left as it is after done.
storage_reset_skipped(st) == st

\* render_done, after done: self.storage.reset().
storage_reset(st) == EmptyStorage

\* The wizard handler entries of a wizard, in stored order.
OfWizard(form_wizard_entry_id) ==
    SelectRows(formWizardHandlerEntries,
        {h.pk : h \in {r \in Range(formWizardHandlerEntries) :
                          r.form_wizard_entry = form_wizard_entry_id}})

\* The effects of a wizard session that has just begun.
NewSession == [state |-> "AwaitingStep", runs |-> 0, submitted |-> {}]

\* FormWizardView.get: the wizard is looked up, the storage is reset and
\* the first step is shown.  A wizard without forms is not found.
FormWizardView_get(user, form_wizard_entry_slug) ==
    LET req == Request("FormWizardView.get", user, "GET", 0,
                       form_wizard_entry_slug, FALSE, None)
        found == wizard_lookup(user, form_wizard_entry_slug)
    IN
    IF found = {}
    THEN Answer(req, Http404("Form wizard entry not found."), <<>>, <<>>)
         /\ UNCHANGED <<db, storage, effects, exported, inflight>>
    ELSE
    LET form_wizard_entry == CHOOSE w \in found : TRUE
        form_list == get_form_list(form_wizard_entry.pk)
    IN
    IF Len(form_list) = 0
    THEN Answer(req,
                Http404("Form wizard entry does not contain any forms."),
                <<>>, <<>>)
         /\ UNCHANGED <<db, storage, effects, exported, inflight>>
    ELSE /\ Answer(req, Render("view_form_wizard_entry_template"), <<>>,
                   <<Call("storage.reset", 0, None)>>)
         /\ storage' = [current_step |-> form_list[1], step_data |-> {}]
         /\ effects' = NewSession
         /\ UNCHANGED <<db, exported, inflight>>

\* render_done and done: every step is validated again; at the first step
\* that fails the revalidation failure of that step is rendered; when no
\* step fails, done looks the wizard up, runs the wizard handlers and
\* redirects, and the storage is reset.  st is the storage with the data of
\* the last step in it, session the effects of the session so far.
render_done(req, form_list, st, session) ==
    LET walk == render_done_loop(form_list, st.step_data, req.invalid)
        found == wizard_lookup(req.user, req.uid)
        now == [session EXCEPT
                   !.submitted = session.submitted \cup walk.submitted]
    IN
    IF walk.failed # 0
    THEN /\ request' = req
         /\ response' = Render("render_revalidation_failure")
         /\ messages' = <<>>
         /\ trace' = <<Call("render_done", 0, None)>> \o walk.calls
                 \o <<Call("render_revalidation_failure", walk.failed,
                           None)>>
         /\ result' = NoResult
         /\ storage' = [st EXCEPT !.current_step = walk.failed]
         /\ effects' = [now EXCEPT !.state = "RevalidationFailed"]
         /\ UNCHANGED <<db, exported, inflight>>
    ELSE IF found = {}
    THEN /\ request' = req
         /\ response' = Http404("Form wizard entry not found.")
         /\ messages' = <<>>
         /\ trace' = <<Call("render_done", 0, None)>> \o walk.calls
                 \o <<Call("done", 0, None)>>
         /\ result' = NoResult
         /\ storage' = st
         /\ effects' = now
         /\ UNCHANGED <<db, exported, inflight>>
    ELSE
    LET form_wizard_entry == CHOOSE w \in found : TRUE
        ran == run_form_wizard_handlers(OfWizard(form_wizard_entry.pk),
                                        req.failing)
    IN   /\ request' = req
         /\ response' = Redirect("fobi.form_wizard_entry_submitted")
         /\ messages' = <<>>
         /\ trace' = <<Call("render_done", 0, None)>> \o walk.calls
                 \o <<Call("done", 0, None),
                      Call("run_form_wizard_handlers",
                           form_wizard_entry.pk, None)>>
                 \o ran.calls
         /\ result' = [fields |-> <<>>, responses |-> ran.responses,
                       errors |-> ran.errors]
         /\ storage' = storage_reset(st)
         /\ effects' = [now EXCEPT !.state = "Done",
                                   !.runs = session.runs + 1]
         /\ UNCHANGED <<db, exported, inflight>>

\* The step that follows form_key in the form list.
next_step(form_list, form_key) ==
    LET i == CHOOSE j \in 1..Len(form_list) : form_list[j] = form_key
    IN form_list[i + 1]

\* FormWizardView.post: the data of the current step is validated; invalid
\* data shows the step again; valid data is stored and the wizard goes to
\* the next step, or to render_done after the last one.  With no current
\* step in the storage the current step is the first one, and a session
\* begins.
FormWizardView_post(user, form_wizard_entry_slug, is_valid, invalid, failing) ==
    LET req == [Request("FormWizardView.post", user, "POST", 0,
                        form_wizard_entry_slug, is_valid, None)
                   EXCEPT !.failing = failing, !.invalid = invalid]
        found == wizard_lookup(user, form_wizard_entry_slug)
    IN
    IF found = {}
    THEN Answer(req, Http404("Form wizard entry not found."), <<>>, <<>>)
         /\ UNCHANGED <<db, storage, effects, exported, inflight>>
    ELSE
    LET form_wizard_entry == CHOOSE w \in found : TRUE
        form_list == get_form_list(form_wizard_entry.pk)
    IN
    IF Len(form_list) = 0
    THEN Answer(req,
                Http404("Form wizard entry does not contain any forms."),
                <<>>, <<>>)
         /\ UNCHANGED <<db, storage, effects, exported, inflight>>
    ELSE
    LET current == IF storage.current_step = 0 THEN form_list[1]
                   ELSE storage.current_step
        session == IF storage.current_step = 0 THEN NewSession
                   ELSE effects
        st == [current_step |-> current,
               step_data |-> storage.step_data \cup {current}]
    IN
    IF ~is_valid
    THEN /\ Answer(req, Render("view_form_wizard_entry_template"), <<>>,
                   <<Call("is_valid", current, "False")>>)
         /\ effects' = [session EXCEPT !.state = "AwaitingStep"]
         /\ UNCHANGED <<db, storage, exported, inflight>>
    ELSE IF current = form_list[Len(form_list)]
    THEN render_done(req, form_list, st, session)
    ELSE /\ Answer(req, Render("view_form_wizard_entry_template"), <<>>,
                   <<Call("is_valid", current, "True"),
                     Call("storage.set_step_data", current, None)>>)
         /\ storage' = [st EXCEPT
                           !.current_step = next_step(form_list, current)]
         /\ effects' = [session EXCEPT !.state = "AwaitingStep"]
         /\ UNCHANGED <<db, exported, inflight>>

(***************************************************************************)
(* SpecWizard: one session of a wizard of WizardSteps steps                *)
(***************************************************************************)

\* The wizard of user u1 has the forms 1..WizardSteps of that user as its
\* steps; the last form is the first step.
StepSlugs == <<"s1", "s2", "s3", "s4", "s5">>

InitWizardDb ==
    /\ formEntries = {[pk |-> i, user |-> "u1", slug |-> StepSlugs[i],
                       is_public |-> TRUE] : i \in 1..WizardSteps}
    /\ formElementEntries = <<>>
    /\ formHandlerEntries = <<>>
    /\ formWizardEntries = {[pk |-> 1, user |-> "u1", slug |-> "w1",
                             is_public |-> TRUE]}
    /\ formWizardFormEntries =
           [i \in 1..WizardSteps |->
               [pk |-> i, form_wizard_entry |-> 1, form_entry |-> i,
                position |-> WizardSteps + 1 - i]]
    /\ formWizardHandlerEntries = <<>>
    /\ pks = [form |-> WizardSteps + 1, element |-> 1, handler |-> 1,
              wizard |-> 2, wizard_form |-> WizardSteps + 1,
              wizard_handler |-> 1]

InitWizard == InitWizardDb /\ InitRequest

WizardAddHandler ==
    \E uid \in FormWizardHandlerUids :
        add_form_wizard_handler_entry("u1", 1, uid, PostValid)

WizardGet ==
    \E slug \in {"w1", "w2"} : FormWizardView_get(AnonymousUser, slug)

\* The step that is posted validated in this request, so it is not among
\* the steps whose data does not validate at render_done.
WizardPost ==
    \E is_valid \in BOOLEAN, invalid \in SUBSET (1..WizardSteps),
       failing \in SUBSET (1..MaxPk) :
        /\ failing \subseteq Pks(formWizardHandlerEntries)
        /\ (~is_valid => invalid = {} /\ failing = {})
        /\ storage.current_step \notin invalid
        /\ FormWizardView_post(AnonymousUser, "w1", is_valid, invalid,
                               failing)

NextWizard ==
    \/ WizardAddHandler
    \/ WizardGet
    \/ WizardPost

SpecWizard == InitWizard /\ [][NextWizard]_vars

\* The last request was a wizard POST that entered render_done.
EnteredRenderDone ==
    /\ request.view = "FormWizardView.post"
    /\ trace # <<>>
    /\ trace[1].call = "render_done"

\* The calls of the given name that the last request made.
Calls(name) == {i \in 1..Len(trace) : trace[i].call = name}

\* The steps of the wizard of the last request, in step order.
StepsInOrder == get_form_list(1)

\* C5: when render_done finds that the stored data of some step does not
\* validate any more, the request ends in the revalidation failure of the
\* first such step in step order, that step becomes the current step, and
\* run_form_wizard_handlers is not invoked in that request.
C5_RevalidationFailureStopsBeforeHandlers ==
    (EnteredRenderDone /\ request.invalid # {}) =>
        /\ response = Render("render_revalidation_failure")
        /\ effects.state = "RevalidationFailed"
        /\ \E i \in 1..Len(StepsInOrder) :
              /\ StepsInOrder[i] \in request.invalid
              /\ \A j \in 1..(i - 1) : StepsInOrder[j] \notin request.invalid
              /\ storage.current_step = StepsInOrder[i]
              /\ Calls("render_revalidation_failure") # {}
              /\ \A c \in Calls("render_revalidation_failure") :
                    trace[c].pk = StepsInOrder[i]
        /\ Calls("run_form_wizard_handlers") = {}
        /\ Calls("run") = {}
        /\ Calls("done") = {}

\* C5 witness: the first two steps did not validate at render_done of a
\* wizard that has handlers, and the revalidation failure is that of the
\* first step.
C5_Witness ==
    /\ EnteredRenderDone
    /\ request.invalid = {StepsInOrder[1], StepsInOrder[2]}
    /\ Len(formWizardHandlerEntries) > 0
    /\ response = Render("render_revalidation_failure")
    /\ storage.current_step = StepsInOrder[1]

\* C6: in a request in which some step fails re-validation, the plugin
\* form-submission hook (submit_plugin_form_data) has been invoked for no
\* step.
C6_NoSubmitHookUnlessAllStepsPass ==
    (EnteredRenderDone /\ response = Render("render_revalidation_failure"))
        => Calls("submit_plugin_form_data") = {}

\* C7: in a wizard session the handlers are run exactly once, in the
\* request that takes the session to Done; in every state before Done no
\* handler has run and no submission hook has been invoked.
C7_NoSideEffectBeforeDone ==
    /\ effects.state = "Done" => effects.runs = 1
    /\ effects.state # "Done" =>
          /\ effects.runs = 0
          /\ effects.submitted = {}

\* C8: a request that ran the wizard handlers leaves the storage cleared
\* (no current step, no step data), and no session runs the handlers a
\* second time.
C8_StorageClearedAfterHandlers ==
    /\ (request.view = "FormWizardView.post"
            /\ Calls("run_form_wizard_handlers") # {})
          => storage = EmptyStorage
    /\ effects.runs <= 1

\* C8 witness: the handlers of the wizard have been run, one of them
\* failed, and the storage is empty.
C8_Witness ==
    /\ request.view = "FormWizardView.post"
    /\ Calls("run_form_wizard_handlers") # {}
    /\ Calls("run") # {}
    /\ result.errors # <<>>
    /\ result.responses # <<>>
    /\ effects.state = "Done"
    /\ storage = EmptyStorage

(***************************************************************************)
(* SpecImport: u1 imports one form from a document                         *)
(***************************************************************************)
\* No form has been imported yet.
NothingImported == \A f \in formEntries : f.slug \in {"s1", "s2"}

ImportDocument ==
    \E form_data \in Documents :
        /\ NothingImported
        /\ import_form_entry("u1", "POST", TRUE, form_data)

ImportTakenSlug ==
    import_form_entry("u1", "POST", TRUE, [NoDocument EXCEPT !.slug = "s1"])

ImportNoDocument ==
    \E method \in {"GET", "POST"} :
        import_form_entry("u1", method, FALSE, NoDocument)

NextImport ==
    \/ ImportDocument
    \/ ImportTakenSlug
    \/ ImportNoDocument

SpecImport == Init /\ [][NextImport]_vars

\* The last request was an import whose form entry was saved.
ImportedForm ==
    /\ request.view = "import_form_entry"
    /\ request.method = "POST"
    /\ request.is_valid
    /\ response # Raised("IntegrityError")

\* The positions in the sequence items at which the plugin is not registered.
Unregistered(items, registry) ==
    {i \in 1..Len(items) : items[i].plugin_uid \notin registry}

\* The items of the sequence whose plugin is registered, in order.
RECURSIVE Registered(_, _)
Registered(items, registry) ==
    IF items = <<>> THEN <<>>
    ELSE IF Head(items).plugin_uid \in registry
         THEN <<Head(items)>> \o Registered(Tail(items), registry)
         ELSE Registered(Tail(items), registry)

\* The form entry the last import saved, and its entries.
ImportedPk == (CHOOSE f \in formEntries : f.slug = request.form_data.slug).pk

ImportedElements ==
    SelectRows(formElementEntries,
               {e.pk : e \in OfForm(formElementEntries, ImportedPk)})

ImportedHandlers ==
    SelectRows(formHandlerEntries,
               {h.pk : h \in OfForm(formHandlerEntries, ImportedPk)})

Warnings == {i \in 1..Len(messages) : messages[i].level = "warning"}

\* C11: an import of a document in which exactly one form_elements item
\* names an unregistered plugin stores every other element as the document
\* lists it, so the new form has one element entry fewer than the document
\* lists, and records one warning; when the handlers of the document are
\* all registered the request ends in the success redirect.
C11_OneUnregisteredElementSkipped ==
    (ImportedForm
        /\ Cardinality(Unregistered(request.form_data.form_elements,
                                    FormElementUids)) = 1) =>
        LET listed == request.form_data.form_elements
            kept == Registered(listed, FormElementUids)
        IN /\ Len(ImportedElements) = Len(listed) - 1
           /\ Len(ImportedElements) = Len(kept)
           /\ \A i \in 1..Len(kept) :
                 /\ ImportedElements[i].plugin_uid = kept[i].plugin_uid
                 /\ ImportedElements[i].position = kept[i].position
                 /\ ImportedElements[i].plugin_data = kept[i].plugin_data
           /\ Cardinality(Warnings) = 1
           /\ Unregistered(request.form_data.form_handlers,
                           FormHandlerUids) = {}
                 => response = Redirect("fobi.edit_form_entry")

\* C11 witness: of two listed elements the first one is unregistered, the
\* second one is stored, and the import was redirected with one warning.
C11_Witness ==
    /\ ImportedForm
    /\ Len(request.form_data.form_elements) = 2
    /\ Unregistered(request.form_data.form_elements, FormElementUids) = {1}
    /\ Len(ImportedElements) = 1
    /\ Cardinality(Warnings) = 1
    /\ response = Redirect("fobi.edit_form_entry")

\* C12: an import of a document in which a form_handlers item names an
\* unregistered plugin is not fatal: the request ends in the success
\* redirect, the item is skipped with a warning, and the other handler
\* items are stored.
C12_UnregisteredHandlerSkipped ==
    (ImportedForm
        /\ Unregistered(request.form_data.form_handlers,
                        FormHandlerUids) # {}) =>
        /\ response = Redirect("fobi.edit_form_entry")
        /\ Len(ImportedHandlers)
              = Len(Registered(request.form_data.form_handlers,
                               FormHandlerUids))
        /\ Cardinality(Warnings) >=
              Cardinality(Unregistered(request.form_data.form_handlers,
                                       FormHandlerUids))

(***************************************************************************)
(* export_form_entry, delete_form_entry                                    *)
(***************************************************************************)

\* The mutant: the exported element items do not carry the plugin data.
export_form_elements_no_data(form_element_entries) ==
    [i \in 1..Len(form_element_entries) |->
        [plugin_uid |-> form_element_entries[i].plugin_uid,
         position |-> form_element_entries[i].position,
         plugin_data |-> None]]

\* The loop over form_element_entries: one item per element entry.
export_form_elements(form_element_entries) ==
    [i \in 1..Len(form_element_entries) |->
        [plugin_uid |-> form_element_entries[i].plugin_uid,
         position |-> form_element_entries[i].position,
         plugin_data |-> form_element_entries[i].plugin_data]]

\* The loop over form_handler_entries: one item per handler entry.
export_form_handlers(form_handler_entries) ==
    [i \in 1..Len(form_handler_entries) |->
        [plugin_uid |-> form_handler_entries[i].plugin_uid,
         plugin_data |-> form_handler_entries[i].plugin_data]]

\* export_form_entry: the user's form is written to a document; the
\* elements are listed in the order of the ordered query, the handlers in
\* stored order; is_public is always written as False.
export_form_entry(user, form_entry_id) ==
    LET req == Request("export_form_entry", user, "GET", form_entry_id,
                       None, FALSE, None)
        found == {f \in formEntries : f.pk = form_entry_id /\ f.user = user}
    IN
    IF found = {}
    THEN Answer(req, Http404("Form entry not found."), <<>>, <<>>)
         /\ UNCHANGED <<db, storage, effects, exported, inflight>>
    ELSE
    LET form_entry == CHOOSE f \in found : TRUE
        form_element_entries ==
            SortByPosition(OfForm(formElementEntries, form_entry.pk))
        form_handler_entries ==
            SelectRows(formHandlerEntries,
                {h.pk : h \in OfForm(formHandlerEntries, form_entry.pk)})
    IN /\ Answer(req, [status |-> "file", detail |-> form_entry.slug],
                 <<>>, <<Call("export", form_entry.pk, form_entry.slug)>>)
       /\ exported' =
             [document |->
                 [slug |-> form_entry.slug, is_public |-> FALSE,
                  form_elements |->
                      export_form_elements(form_element_entries),
                  form_handlers |->
                      export_form_handlers(form_handler_entries)],
              elements |-> form_element_entries,
              handlers |-> form_handler_entries]
       /\ UNCHANGED <<db, storage, effects, inflight>>

\* The rows of s that do not belong to the form.
NotOfForm(s, form_entry_id) ==
    SelectRows(s, {r.pk : r \in {x \in Range(s) :
                                    x.form_entry # form_entry_id}})

\* delete_form_entry: the user's form is deleted, and with it (by cascade)
\* its element entries, its handler entries and the wizard steps that show
\* it.
delete_form_entry(user, form_entry_id) ==
    LET req == Request("delete_form_entry", user, "GET", form_entry_id,
                       None, FALSE, None)
        found == {f \in formEntries : f.pk = form_entry_id /\ f.user = user}
    IN
    IF found = {}
    THEN Answer(req, Http404("Form entry not found."), <<>>, <<>>)
         /\ UNCHANGED <<db, storage, effects, exported, inflight>>
    ELSE /\ Answer(req, Redirect("fobi.dashboard"),
                   <<Message("info", "The form was deleted successfully.")>>,
                   <<Call("delete", form_entry_id, None)>>)
         /\ formEntries' = formEntries \ found
         /\ formElementEntries' = NotOfForm(formElementEntries, form_entry_id)
         /\ formHandlerEntries' = NotOfForm(formHandlerEntries, form_entry_id)
         /\ formWizardFormEntries' =
               NotOfForm(formWizardFormEntries, form_entry_id)
         /\ UNCHANGED <<formWizardEntries, formWizardHandlerEntries, pks,
                        storage, effects, exported, inflight>>

(***************************************************************************)
(* SpecRoundTrip: u1 builds form 1, exports it, and imports the exported   *)
(* file, with form 1 still there or after deleting it.                     *)
(***************************************************************************)
RoundTripAddElement ==
    \E uid \in FormElementUids :
        add_form_element_entry("u1", 1, uid, PostFresh)

\* Deleting the entry added last but one leaves a gap in the positions.
RoundTripDeleteElement ==
    /\ pks.element > 2
    /\ delete_form_element_entry("u1", pks.element - 2)

RoundTripAddHandler == add_form_handler_entry("u1", 1, "mail", PostValid)

RoundTripExport == export_form_entry("u1", 1)

RoundTripDeleteForm == delete_form_entry("u1", 1)

RoundTripImport ==
    /\ exported # NoFile
    /\ import_form_entry("u1", "POST", TRUE, exported.document)

NextRoundTrip ==
    \/ RoundTripAddElement
    \/ RoundTripDeleteElement
    \/ RoundTripAddHandler
    \/ RoundTripExport
    \/ RoundTripDeleteForm
    \/ RoundTripImport

SpecRoundTrip == Init /\ [][NextRoundTrip]_vars

\* The (plugin_uid, position, plugin_data) triples of element rows.
ElementTriples(rows) ==
    [i \in 1..Len(rows) |->
        <<rows[i].plugin_uid, rows[i].position, rows[i].plugin_data>>]

\* The (plugin_uid, plugin_data) pairs of handler rows.
HandlerPairs(rows) ==
    [i \in 1..Len(rows) |-> <<rows[i].plugin_uid, rows[i].plugin_data>>]

WithPositions(rows, posted) ==
    [i \in 1..Len(rows) |->
        IF rows[i].pk \in DOMAIN posted
        THEN [rows[i] EXCEPT !.position = posted[rows[i].pk]]
        ELSE rows[i]]

\* edit_form_entry: a POST with 'ordering' saves the posted positions when
\* the formset is valid; otherwise a POST saves the form entry itself when
\* its form is valid, and a uniqueness error of that save becomes a
\* message.  ordering is "absent" (no 'ordering' in the POST), "valid" or
\* "invalid" (the formset); posted maps ids of element entries of the form
\* to positions; the fields of the form entry that the form edits are not
\* part of the model.
edit_form_entry(user, form_entry_id, method, ordering, posted, is_valid, integrity_error) ==
    LET req == Request("edit_form_entry", user, method, form_entry_id, None,
                       is_valid, None)
        found == {f \in formEntries : f.pk = form_entry_id /\ f.user = user}
    IN
    IF found = {}
    THEN Answer(req, Http404("Form entry not found."), <<>>, <<>>)
         /\ UNCHANGED <<db, storage, effects, exported, inflight>>
    ELSE IF method = "POST" /\ ordering = "valid"
    THEN /\ Answer(req, Redirect("fobi.edit_form_entry"),
                   <<Message("info", "Elements ordering edited successfully.")>>,
                   <<Call("form_element_entry_formset.save", form_entry_id,
                          None)>>)
         /\ formElementEntries' = WithPositions(formElementEntries, posted)
         /\ UNCHANGED <<formEntries, formHandlerEntries, formWizardEntries,
                        formWizardFormEntries, formWizardHandlerEntries, pks,
                        storage, effects, exported, inflight>>
    ELSE IF method = "POST" /\ is_valid /\ ~integrity_error
    THEN Answer(req, Redirect("fobi.edit_form_entry"),
                <<Message("info", "Form was edited successfully.")>>,
                <<Call("save", form_entry_id, None)>>)
         /\ UNCHANGED <<db, storage, effects, exported, inflight>>
    ELSE IF method = "POST" /\ is_valid
    THEN Answer(req, Render("edit_form_entry_template"),
                <<Message("info", "Errors occurred while saving the form.")>>,
                <<Call("save", form_entry_id, None)>>)
         /\ UNCHANGED <<db, storage, effects, exported, inflight>>
    ELSE Answer(req, Render("edit_form_entry_template"), <<>>, <<>>)
         /\ UNCHANGED <<db, storage, effects, exported, inflight>>

(***************************************************************************)
(* SpecPositions: u1 adds and deletes elements of form 1, saves an         *)
(* ordering of them, and imports a form from a document.                   *)
(***************************************************************************)
PositionsAdd ==
    \E uid \in FormElementUids :
        add_form_element_entry("u1", 1, uid, PostFresh)

PositionsDelete ==
    \E id \in 1..MaxPk : delete_form_element_entry("u1", id)

\* The orderings a client can post for a form: a position for each of its
\* element entries.
Orderings(form_entry_id) ==
    LET ids == {e.pk : e \in OfForm(formElementEntries, form_entry_id)}
    IN [ids -> 1..MaxPosition]

PositionsOrdering ==
    \E posted \in Orderings(1), ordering \in {"valid", "invalid"} :
        edit_form_entry("u1", 1, "POST", ordering, posted, FALSE, FALSE)

PositionsImport ==
    \E form_data \in ElementDocuments :
        import_form_entry("u1", "POST", TRUE, form_data)

NextPositions ==
    \/ PositionsAdd
    \/ PositionsDelete
    \/ PositionsOrdering
    \/ PositionsImport

SpecPositions == Init /\ [][NextPositions]_vars

\* C14: no two element entries of the same form have the same position.
C14_PositionsUniquePerForm ==
    \A i, j \in 1..Len(formElementEntries) :
        (i # j /\ formElementEntries[i].form_entry
                    = formElementEntries[j].form_entry)
            => formElementEntries[i].position
                  # formElementEntries[j].position

(***************************************************************************)
(* create_form_entry                                                       *)
(***************************************************************************)

\* create_form_entry: a valid POST saves a new form entry of the user; the
\* uniqueness error of that save is caught and becomes a message, and the
\* form is shown again.
create_form_entry(user, method, is_valid, slug) ==
    LET req == Request("create_form_entry", user, method, 0, slug, is_valid,
                       None)
        form_entry == [pk |-> pks.form, user |-> user, slug |-> slug,
                       is_public |-> FALSE]
    IN
    IF ~(method = "POST" /\ is_valid)
    THEN Answer(req, Render("create_form_entry_template"), <<>>, <<>>)
         /\ UNCHANGED <<db, storage, effects, exported, inflight>>
    ELSE IF slug_taken(slug)
    THEN Answer(req, Render("create_form_entry_template"),
                <<Message("info", "Errors occurred while saving the form.")>>,
                <<Call("save", 0, slug)>>)
         /\ UNCHANGED <<db, storage, effects, exported, inflight>>
    ELSE /\ pks.form <= MaxPk
         /\ formEntries' = formEntries \cup {form_entry}
         /\ pks' = [pks EXCEPT !.form = @ + 1]
         /\ Answer(req, Redirect("fobi.edit_form_entry"),
                   <<Message("info", "Form was created successfully.")>>,
                   <<Call("save", form_entry.pk, slug)>>)
         /\ UNCHANGED <<formElementEntries, formHandlerEntries,
                        formWizardEntries, formWizardFormEntries,
                        formWizardHandlerEntries, storage, effects, exported, inflight>>

(***************************************************************************)
(* SpecSaves: u1 creates, edits and imports forms, under slugs that are    *)
(* free and under slugs that are taken                                     *)
(***************************************************************************)
SavesCreate ==
    \E method \in {"GET", "POST"}, is_valid \in BOOLEAN,
       slug \in {"s1", "s3"} :
        /\ (method = "GET" => ~is_valid)
        /\ create_form_entry("u1", method, is_valid, slug)

SavesEdit ==
    \E id \in 1..MaxPk, is_valid \in BOOLEAN, integrity_error \in BOOLEAN :
        /\ (integrity_error => is_valid)
        /\ edit_form_entry("u1", id, "POST", "absent", <<>>, is_valid,
                           integrity_error)

SavesAddElement ==
    \E uid \in FormElementUids :
        add_form_element_entry("u1", 1, uid, PostValid)

SavesImport ==
    \E slug \in {"s1", "s3"}, form_data \in ElementDocuments :
        import_form_entry("u1", "POST", TRUE,
                          [form_data EXCEPT !.slug = slug])

NextSaves ==
    \/ SavesCreate
    \/ SavesEdit
    \/ SavesAddElement
    \/ SavesImport

SpecSaves == Init /\ [][NextSaves]_vars

\* C15: no operation that saves a form or an entry ends in an unhandled
\* uniqueness error: the error of the save becomes a message and the
\* operation answers normally.
C15_UniquenessViolationHandled ==
    request.view \in {"create_form_entry", "edit_form_entry",
                      "add_form_element_entry", "import_form_entry"}
        => response # Raised("IntegrityError")

(***************************************************************************)
(* SpecEntitled: u2 asks to add plugins to a form and to a wizard, by uids  *)
(* u2 is entitled to, uids u2 is not entitled to and a uid no registry     *)
(* knows.                                                                  *)
(***************************************************************************)
EntitledSubmissions ==
    {[method |-> "GET", is_valid |-> FALSE, plugin_data |-> None], PostValid}

EntitledAddElement ==
    \E user \in {"u2"}, id \in {1, MaxPk + 1},
       uid \in FormElementUids \cup {GhostUid},
       sub \in EntitledSubmissions :
        add_form_element_entry(user, id, uid, sub)

EntitledAddHandler ==
    \E user \in {"u2"}, id \in {1, MaxPk + 1},
       uid \in FormHandlerUids \cup {GhostUid},
       sub \in EntitledSubmissions :
        add_form_handler_entry(user, id, uid, sub)

EntitledAddWizardHandler ==
    \E user \in {"u2"}, id \in {1, MaxPk + 1},
       uid \in FormWizardHandlerUids \cup {GhostUid},
       sub \in EntitledSubmissions :
        add_form_wizard_handler_entry(user, id, uid, sub)

NextEntitled ==
    \/ EntitledAddElement
    \/ EntitledAddHandler
    \/ EntitledAddWizardHandler

SpecEntitled == Init /\ [][NextEntitled]_vars

\* The uids the user of a request is entitled to, for the view of the
\* request.
EntitledUids(req) ==
    IF req.view = "add_form_element_entry"
    THEN get_user_form_field_plugin_uids(req.user)
    ELSE IF req.view = "add_form_handler_entry"
    THEN get_user_form_handler_plugin_uids(req.user)
    ELSE get_user_form_wizard_handler_plugin_uids(req.user)

\* The request asks to add a plugin the user is not entitled to.
AddOfForeignPlugin(req) ==
    /\ req.view \in {"add_form_element_entry", "add_form_handler_entry",
                     "add_form_wizard_handler_entry"}
    /\ req.uid \notin EntitledUids(req)

\* C16: an add request that names a uid outside the user's entitled set
\* ends in Http404 before any registry lookup; the answer is the same for
\* an unregistered uid and for a registered one the user may not use (it
\* depends only on whether the form or wizard exists); the stored entries
\* are unchanged.
C16_ForeignPluginNotFound ==
    [][AddOfForeignPlugin(request') =>
          /\ response'.status = "Http404"
          /\ response'.detail =
                IF request'.view = "add_form_wizard_handler_entry"
                THEN IF \E w \in formWizardEntries : w.pk = request'.id
                     THEN "Plugin does not exist or you are not allowed to use this plugin!"
                     ELSE "Form wizard entry not found."
                ELSE IF \E f \in formEntries : f.pk = request'.id
                     THEN "Plugin does not exist or you are not allowed to use this plugin!"
                     ELSE "Form entry not found."
          /\ trace' = <<>>
          /\ formElementEntries' = formElementEntries
          /\ formHandlerEntries' = formHandlerEntries
          /\ formWizardHandlerEntries' = formWizardHandlerEntries
      ]_vars

\* C16 witness: u2 asked to add db_store, which is registered but not
\* among u2's uids, to a form that holds handler entries, and got the
\* answer an unregistered uid gets.
C16_Witness ==
    /\ request.view = "add_form_handler_entry"
    /\ request.user = "u2"
    /\ request.uid = "db_store"
    /\ request.method = "POST"
    /\ Len(formHandlerEntries) > 0
    /\ response = Http404("Plugin does not exist or you are not allowed to use this plugin!")

(***************************************************************************)
(* SpecOwners: u1 fills the form and the wizard u1 owns; u2 asks to add    *)
(* to, edit and delete in u1's form and wizard.                            *)
(***************************************************************************)
\* At most MaxPk entries are made in all, over the three tables.
OwnersRoom ==
    (pks.element - 1) + (pks.handler - 1) + (pks.wizard_handler - 1) < MaxPk

OwnersFill ==
    /\ OwnersRoom
    /\ \/ add_form_element_entry("u1", 1, "text", PostValid)
       \/ add_form_handler_entry("u1", 1, "db_store", PostValid)
       \/ add_form_wizard_handler_entry("u1", 1, "db_store", PostValid)

OwnersAdd ==
    /\ OwnersRoom
    /\ \/ add_form_element_entry("u2", 1, "text", PostValid)
       \/ add_form_handler_entry("u2", 1, "mail", PostValid)
       \/ add_form_wizard_handler_entry("u2", 1, "mail", PostValid)

OwnersEdit ==
    \/ \E pk \in 1..MaxPk :
        edit_form_handler_entry("u2", pk,
            [method |-> "POST", is_valid |-> TRUE, plugin_data |-> "b"])
    \/ \E pk \in 1..MaxPk :
        edit_form_wizard_handler_entry("u2", pk,
            [method |-> "POST", is_valid |-> TRUE, plugin_data |-> "b"])

OwnersDelete ==
    \/ \E pk \in 1..MaxPk : delete_form_element_entry("u2", pk)
    \/ \E pk \in 1..MaxPk : delete_form_handler_entry("u2", pk)
    \/ \E pk \in 1..MaxPk : delete_form_wizard_handler_entry("u2", pk)

NextOwners ==
    \/ OwnersFill
    \/ OwnersAdd
    \/ OwnersEdit
    \/ OwnersDelete

SpecOwners == Init /\ [][NextOwners]_vars

\* The forms and the wizards that belong to somebody else than the user.
ForeignForms(user) == {f.pk : f \in {g \in formEntries : g.user # user}}
ForeignWizards(user) ==
    {w.pk : w \in {v \in formWizardEntries : v.user # user}}

\* The rows of a table held by the given forms (or wizards).
RowsOfForms(rows, forms) ==
    {r \in Range(rows) : r.form_entry \in forms}
RowsOfWizards(rows, wizards) ==
    {r \in Range(rows) : r.form_wizard_entry \in wizards}

\* C17: a request of one user leaves the entries (plugin_data included)
\* of every form and wizard owned by another user as they were.
C17_ForeignCompositionUntouched ==
    [][LET user == request'.user IN
       /\ RowsOfForms(formElementEntries', ForeignForms(user))
            = RowsOfForms(formElementEntries, ForeignForms(user))
       /\ RowsOfForms(formHandlerEntries', ForeignForms(user))
            = RowsOfForms(formHandlerEntries, ForeignForms(user))
       /\ RowsOfWizards(formWizardHandlerEntries', ForeignWizards(user))
            = RowsOfWizards(formWizardHandlerEntries, ForeignWizards(user))
      ]_vars

(***************************************************************************)
(* SpecConfigure: u1 opens the add pages of elements and handlers of form  *)
(* 1 and posts their configuration forms, valid or not.                    *)
(***************************************************************************)
ConfigureAddElement ==
    \E uid \in FormElementUids, sub \in AddSubmissions :
        add_form_element_entry("u1", 1, uid, sub)

ConfigureAddHandler ==
    \E uid \in FormHandlerUids, sub \in AddSubmissions :
        add_form_handler_entry("u1", 1, uid, sub)

NextConfigure ==
    \/ ConfigureAddElement
    \/ ConfigureAddHandler

SpecConfigure == Init /\ [][NextConfigure]_vars

\* The rows of the table a request of an add view saves into.
TableOf(req, elements, handlers) ==
    IF req.view = "add_form_element_entry" THEN elements ELSE handlers

\* C18: for a plugin that has a configuration form, an add request that
\* passes the lookups creates an entry exactly when it is a POST whose
\* form validates, the entry holding the form's plugin data; a GET or an
\* invalid POST leaves the entries as they were and renders the form again.
C18_EntryOnlyForValidPost ==
    [][(/\ request'.view \in {"add_form_element_entry",
                              "add_form_handler_entry"}
        /\ get_form(request'.uid)
        /\ response'.status # "Http404")
       =>
       LET before == TableOf(request', formElementEntries,
                             formHandlerEntries)
           after == TableOf(request', formElementEntries',
                            formHandlerEntries')
       IN
       IF request'.method = "POST" /\ request'.is_valid
       THEN /\ Len(after) = Len(before) + 1
            /\ SubSeq(after, 1, Len(before)) = before
            /\ after[Len(after)].plugin_uid = request'.uid
            /\ after[Len(after)].plugin_data = request'.plugin_data
            /\ response' = Redirect("fobi.edit_form_entry")
       ELSE /\ formElementEntries' = formElementEntries
            /\ formHandlerEntries' = formHandlerEntries
            /\ response' = Render(IF request'.view = "add_form_element_entry"
                                  THEN "add_form_element_entry_template"
                                  ELSE "add_form_handler_entry_template")
      ]_vars

\* C18 witness: after an element was added by a valid POST, an invalid
\* POST for another element got the form back and added nothing.
C18_Witness ==
    /\ request.view = "add_form_element_entry"
    /\ request.method = "POST"
    /\ ~request.is_valid
    /\ get_form(request.uid)
    /\ Len(formElementEntries) = 1
    /\ response = Render("add_form_element_entry_template")

(***************************************************************************)
(* The stages of a submission (checked on SpecSubmit)                      *)
(***************************************************************************)
\* The name of the stage a call of the trace belongs to.
StageOf(c) == IF c.call = "fire_form_callbacks" THEN c.arg ELSE c.call

\* The stages a valid POST goes through before the handlers are run.
StagesBeforeRun ==
    <<"assemble_form_class",
      "CALLBACK_BEFORE_FORM_VALIDATION",
      "is_valid",
      "CALLBACK_FORM_VALID_BEFORE_SUBMIT_PLUGIN_FORM_DATA",
      "submit_plugin_form_data",
      "CALLBACK_FORM_VALID",
      "run_form_handlers">>

\* C19: a valid POST to view_form_entry goes through BEFORE_VALIDATION,
\* validation, VALID_BEFORE_HANDLERS, the submission hooks, VALID, the
\* handler run, VALID_AFTER_HANDLERS and the redirect, in this order and
\* each once; the form returned by VALID_BEFORE_HANDLERS, by the
\* submission hooks and by VALID is the form the next stage is given, and
\* the last of them is the form the handlers are given.
C19_StagesInOrder ==
    ValidSubmission =>
        LET n == Len(trace)
            k == Len(StagesBeforeRun)
        IN
        /\ n > k
        /\ \A i \in 1..k : StageOf(trace[i]) = StagesBeforeRun[i]
        /\ \A i \in (k + 1)..(n - 1) : trace[i].call = "run"
        /\ StageOf(trace[n]) = "CALLBACK_FORM_VALID_AFTER_FORM_HANDLERS"
        /\ response = Redirect("fobi.form_entry_submitted")
        /\ trace[2].form = PostedForm
        /\ trace[3].form = PostedForm
        /\ trace[4].form = PostedForm
        /\ trace[5].form = returned_form(trace[4].form)
        /\ trace[6].form = returned_form(trace[5].form)
        /\ trace[7].form = returned_form(trace[6].form)
        /\ \A i \in (k + 1)..n : trace[i].form = trace[7].form

\* C19 witness: a valid POST ran two handlers, both with the form that
\* the VALID callbacks returned, and was redirected.
C19_Witness ==
    /\ ValidSubmission
    /\ Len(trace) = Len(StagesBeforeRun) + 3
    /\ trace[8].call = "run" /\ trace[9].call = "run"
    /\ trace[8].form = returned_form(returned_form(returned_form(PostedForm)))
    /\ trace[9].form = trace[8].form
    /\ response.status = "redirect"

(***************************************************************************)
(* The errors of the wizard handlers (checked on SpecWizard)               *)
(***************************************************************************)
\* C20: when the run of the wizard handlers in done returned errors, each
\* error is flashed as a warning and the request ends in the redirect to
\* the wizard-submitted page.
C20_WizardHandlerErrorsAreWarnings ==
    (/\ request.view = "FormWizardView.post"
     /\ Calls("run_form_wizard_handlers") # {}
     /\ result.errors # <<>>)
    =>
        /\ response = Redirect("fobi.form_wizard_entry_submitted")
        /\ \A i \in 1..Len(result.errors) :
              \E j \in 1..Len(messages) :
                  /\ messages[j].level = "warning"
                  /\ messages[j].arg = result.errors[i]

(***************************************************************************)
(* SpecNames: u1 adds elements to form 1 and edits them, posting           *)
(* configurations of which two ("a" and "c") give the same field name.     *)
(***************************************************************************)
NamedData == {"a", "b", "c"}

NamesSubmissions ==
    {[method |-> "GET", is_valid |-> FALSE, plugin_data |-> None]}
    \cup {[method |-> "POST", is_valid |-> v, plugin_data |-> d] :
             v \in BOOLEAN, d \in NamedData}

NamesAdd ==
    \E sub \in NamesSubmissions :
        add_form_element_entry("u1", 1, "text", sub)

NamesEdit ==
    \E pk \in 1..MaxPk, sub \in NamesSubmissions :
        edit_form_element_entry("u1", pk, sub)

NextNames ==
    \/ NamesAdd
    \/ NamesEdit

SpecNames == Init /\ [][NextNames]_vars

\* No two element entries of one form carry the same field name.
NamesUnique(rows) ==
    \A i, j \in 1..Len(rows) :
        (i # j /\ rows[i].form_entry = rows[j].form_entry)
            => field_name(rows[i].plugin_data)
                 # field_name(rows[j].plugin_data)

\* The posted name is the name of an entry of the form the request is
\* about, the edited entry itself left out.
NameOfSibling(req, rows) ==
    \E i \in 1..Len(rows) :
        /\ field_name(rows[i].plugin_data) = field_name(req.plugin_data)
        /\ IF req.view = "add_form_element_entry"
           THEN rows[i].form_entry = req.id
           ELSE /\ rows[i].pk # req.id
                /\ \E j \in 1..Len(rows) :
                      /\ rows[j].pk = req.id
                      /\ rows[j].form_entry = rows[i].form_entry

\* C21: after every add-element and edit-element request no two element
\* entries of a form carry the same field name; a POST whose configured
\* name is the name of a sibling entry is answered with the form again
\* and leaves the element entries as they were.
C21_FieldNamesUnique ==
    [][/\ NamesUnique(formElementEntries')
       /\ (/\ request'.view \in {"add_form_element_entry",
                                 "edit_form_element_entry"}
           /\ request'.method = "POST"
           /\ NameOfSibling(request', formElementEntries))
          => /\ formElementEntries' = formElementEntries
             /\ response'.status = "render"
      ]_vars

\* C21 witness: the form holds the names "a" and "b", and the edit that
\* would have given the second entry the name of the first was refused.
C21_Witness ==
    /\ request.view = "edit_form_element_entry"
    /\ request.method = "POST"
    /\ request.plugin_data = "c"
    /\ Len(formElementEntries) >= 2
    /\ formElementEntries[1].plugin_data = "a"
    /\ formElementEntries[2].pk = request.id
    /\ formElementEntries[2].plugin_data = "b"
    /\ response = Render("edit_form_element_entry_template")

(***************************************************************************)
(* SpecEdit: u1 fills form 1 and wizard 1 with entries and edits them.     *)
(***************************************************************************)
\* At most MaxPk entries are made in all, over the three tables.
EditRoom ==
    (pks.element - 1) + (pks.handler - 1) + (pks.wizard_handler - 1) < MaxPk

EditFill ==
    /\ EditRoom
    /\ \/ add_form_element_entry("u1", 1, "text", PostFresh)
       \/ \E uid \in FormHandlerUids :
            add_form_handler_entry("u1", 1, uid, PostValid)
       \/ \E uid \in FormWizardHandlerUids :
            add_form_wizard_handler_entry("u1", 1, uid, PostValid)

\* What the browser sends to the edit views here.
EditSubmissions ==
    {[method |-> "GET", is_valid |-> FALSE, plugin_data |-> None],
     [method |-> "POST", is_valid |-> FALSE, plugin_data |-> "b"],
     [method |-> "POST", is_valid |-> TRUE, plugin_data |-> "b"]}

EditElement ==
    \E pk \in 1..MaxPk, sub \in EditSubmissions :
        edit_form_element_entry("u1", pk, sub)

EditHandler ==
    \E pk \in 1..MaxPk, sub \in EditSubmissions :
        edit_form_handler_entry("u1", pk, sub)

EditWizardHandler ==
    \E pk \in 1..MaxPk, sub \in EditSubmissions :
        edit_form_wizard_handler_entry("u1", pk, sub)

NextEdit ==
    \/ EditFill
    \/ EditElement
    \/ EditHandler
    \/ EditWizardHandler

SpecEdit == Init /\ [][NextEdit]_vars

EditViews ==
    {"edit_form_element_entry", "edit_form_handler_entry",
     "edit_form_wizard_handler_entry"}

\* The rows of the table a request of an edit view is about.
EditedTable(req, elements, handlers, wizard_handlers) ==
    IF req.view = "edit_form_element_entry" THEN elements
    ELSE IF req.view = "edit_form_handler_entry" THEN handlers
    ELSE wizard_handlers

\* C22: an edit request changes nothing but the plugin_data of the entry
\* it names, and that only when the plugin is configurable and the
\* request is a POST whose form validates; it then holds the posted data.
\* The entry's plugin_uid, position and composition, every other entry
\* and every other table stay as they were; a GET, an invalid POST and
\* the edit of a plugin that is not configurable change nothing.
C22_EditReplacesOnlyPluginData ==
    [][request'.view \in EditViews =>
        LET before == EditedTable(request', formElementEntries,
                          formHandlerEntries, formWizardHandlerEntries)
            after == EditedTable(request', formElementEntries',
                          formHandlerEntries', formWizardHandlerEntries')
            success(row) ==
                /\ row.pk = request'.id
                /\ get_form(row.plugin_uid)
                /\ request'.method = "POST"
                /\ request'.is_valid
        IN
        /\ Len(after) = Len(before)
        /\ \A i \in 1..Len(before) :
              after[i] = IF success(before[i])
                         THEN [before[i] EXCEPT
                                  !.plugin_data = request'.plugin_data]
                         ELSE before[i]
        /\ (request'.view # "edit_form_element_entry"
               => formElementEntries' = formElementEntries)
        /\ (request'.view # "edit_form_handler_entry"
               => formHandlerEntries' = formHandlerEntries)
        /\ (request'.view # "edit_form_wizard_handler_entry"
               => formWizardHandlerEntries' = formWizardHandlerEntries)
        /\ UNCHANGED <<formEntries, formWizardEntries,
                       formWizardFormEntries, pks>>
      ]_vars

\* C22 witness: of two mail handler entries the first was edited by a
\* valid POST and holds the posted data, the second holds its own.
C22_Witness ==
    /\ request.view = "edit_form_handler_entry"
    /\ request.method = "POST"
    /\ request.is_valid
    /\ response = Redirect("fobi.edit_form_entry")
    /\ Len(formHandlerEntries) = 2
    /\ formHandlerEntries[1].pk = request.id
    /\ formHandlerEntries[1].plugin_uid = "mail"
    /\ formHandlerEntries[1].plugin_data = "b"
    /\ formHandlerEntries[2].plugin_uid = "mail"
    /\ formHandlerEntries[2].plugin_data = "a"

(***************************************************************************)
(* The handler run of a request (checked on SpecSubmit)                    *)
(***************************************************************************)
\* The calls of the trace that belong to the given stages.
StageCalls(stages) == {i \in 1..Len(trace) : StageOf(trace[i]) \in stages}

\* C23: a request to view_form_entry that found its form invokes the
\* handler run once when it is a POST whose form validates and never
\* otherwise; an invalid POST fires the BEFORE_VALIDATION and the INVALID
\* callbacks and nothing else (no submission hooks, no VALID callbacks,
\* no handler), and a GET fires no callback and runs no handler.
C23_HandlersRunOncePerValidPost ==
    (request.view = "view_form_entry" /\ response.status # "Http404") =>
        /\ Cardinality(StageCalls({"run_form_handlers"})) =
              IF request.method = "POST" /\ request.is_valid THEN 1 ELSE 0
        /\ (request.method = "POST" /\ ~request.is_valid) =>
              /\ [i \in 1..Len(trace) |-> StageOf(trace[i])]
                    = <<"assemble_form_class",
                        "CALLBACK_BEFORE_FORM_VALIDATION",
                        "is_valid",
                        "CALLBACK_FORM_INVALID">>
              /\ result.responses = <<>> /\ result.errors = <<>>
        /\ request.method = "GET" =>
              /\ [i \in 1..Len(trace) |-> StageOf(trace[i])]
                    = <<"assemble_form_class">>
              /\ result.responses = <<>> /\ result.errors = <<>>
        /\ ~(request.method = "POST" /\ request.is_valid) =>
              StageCalls({"run", "submit_plugin_form_data",
                          "CALLBACK_FORM_VALID",
                          "CALLBACK_FORM_VALID_BEFORE_SUBMIT_PLUGIN_FORM_DATA",
                          "CALLBACK_FORM_VALID_AFTER_FORM_HANDLERS"}) = {}

\* C23 witness: an invalid POST to a form that has handlers was rendered
\* again after the INVALID callbacks.
C23_Witness ==
    /\ request.view = "view_form_entry"
    /\ request.method = "POST"
    /\ ~request.is_valid
    /\ response = Render("view_form_entry_template")
    /\ SubmittedHandlers # {}
    /\ StageCalls({"CALLBACK_FORM_INVALID"}) # {}

(***************************************************************************)
(* Requests served side by side: an add view in two steps, everything up   *)
(* to its last read of the table, and obj.save() with the answer.  Nothing *)
(* in the views holds a lock or a transaction between the two, and no save *)
(* of an entry is guarded against an error of the storage.                 *)
(***************************************************************************)

\* add_form_handler_entry up to obj.save(): the lookups, the times_used
\* count and the validation of the posted form, for a request that goes
\* on to save.
add_form_handler_entry_count(p, user, form_entry_id, form_handler_plugin_uid, sub) ==
    LET times_used == Count(formHandlerEntries, form_entry_id,
                            form_handler_plugin_uid)
    IN
    /\ inflight[p].pc = "idle"
    /\ \E f \in formEntries : f.pk = form_entry_id
    /\ plugin_allowed(form_handler_plugin_uid,
                      get_user_form_handler_plugin_uids(user))
    /\ ~(~allow_multiple(form_handler_plugin_uid)
            /\ times_used_once(times_used))
    /\ save_object(form_handler_plugin_uid, sub)
    /\ inflight' = [inflight EXCEPT ![p] =
          [pc |-> "read", view |-> "add_form_handler_entry", user |-> user,
           id |-> form_entry_id, uid |-> form_handler_plugin_uid,
           plugin_data |-> obj_plugin_data(form_handler_plugin_uid, sub),
           read |-> times_used]]
    /\ UNCHANGED <<db, storage, request, response, messages, trace, result,
                   effects, exported>>

\* `obj.save()` of add_form_handler_entry and the answer.
add_form_handler_entry_save(p) ==
    LET r == inflight[p]
        req == Request("add_form_handler_entry", r.user, "POST", r.id,
                       r.uid, TRUE, r.plugin_data)
        obj == [pk |-> pks.handler, form_entry |-> r.id,
                plugin_uid |-> r.uid, plugin_data |-> r.plugin_data]
    IN
    /\ r.pc = "read" /\ r.view = "add_form_handler_entry"
    /\ pks.handler <= MaxPk
    /\ formHandlerEntries' = Append(formHandlerEntries, obj)
    /\ pks' = [pks EXCEPT !.handler = @ + 1]
    /\ inflight' = [inflight EXCEPT ![p] = NoFlight]
    /\ Answer(req, Redirect("fobi.edit_form_entry"),
              <<Message("info", "The form handler plugin was added successfully.")>>,
              <<Call("registry.get", 0, r.uid), Call("save", obj.pk, r.uid)>>)
    /\ UNCHANGED <<formEntries, formElementEntries, formWizardEntries,
                   formWizardFormEntries, formWizardHandlerEntries,
                   storage, effects, exported>>

\* add_form_element_entry up to obj.save(): the lookups, the validation of
\* the posted form and the aggregate Max('position'), for a request that
\* goes on to save.
add_form_element_entry_aggregate(p, user, form_entry_id, form_element_plugin_uid, posted) ==
    LET form_elements == OfForm(formElementEntries, form_entry_id)
        sub == form_validated(posted, form_elements)
    IN
    /\ inflight[p].pc = "idle"
    /\ \E f \in formEntries : f.pk = form_entry_id
    /\ plugin_allowed(form_element_plugin_uid,
                      get_user_form_field_plugin_uids(user))
    /\ save_object(form_element_plugin_uid, sub)
    /\ inflight' = [inflight EXCEPT ![p] =
          [pc |-> "read", view |-> "add_form_element_entry", user |-> user,
           id |-> form_entry_id, uid |-> form_element_plugin_uid,
           plugin_data |-> obj_plugin_data(form_element_plugin_uid, sub),
           read |-> next_position(form_elements)]]
    /\ UNCHANGED <<db, storage, request, response, messages, trace, result,
                   effects, exported>>

\* `obj.position = position`, `obj.save()` of add_form_element_entry and
\* the answer.
add_form_element_entry_save(p) ==
    LET r == inflight[p]
        req == Request("add_form_element_entry", r.user, "POST", r.id,
                       r.uid, TRUE, r.plugin_data)
        obj == [pk |-> pks.element, form_entry |-> r.id,
                plugin_uid |-> r.uid, position |-> r.read,
                plugin_data |-> r.plugin_data]
    IN
    /\ r.pc = "read" /\ r.view = "add_form_element_entry"
    /\ pks.element <= MaxPk
    /\ formElementEntries' = Append(formElementEntries, obj)
    /\ pks' = [pks EXCEPT !.element = @ + 1]
    /\ inflight' = [inflight EXCEPT ![p] = NoFlight]
    /\ Answer(req, Redirect("fobi.edit_form_entry"),
              <<Message("info", "The form element plugin was added successfully.")>>,
              <<Call("registry.get", 0, r.uid), Call("save", obj.pk, r.uid)>>)
    /\ UNCHANGED <<formEntries, formHandlerEntries, formWizardEntries,
                   formWizardFormEntries, formWizardHandlerEntries,
                   storage, effects, exported>>

(***************************************************************************)
(* SpecRace: two processes serve u1's add requests on form 1 side by side. *)
(***************************************************************************)
RaceCountHandler ==
    \E p \in Workers, uid \in FormHandlerUids :
        add_form_handler_entry_count(p, "u1", 1, uid, PostValid)

RaceSaveHandler == \E p \in Workers : add_form_handler_entry_save(p)

RaceAggregateElement ==
    \E p \in Workers, d \in PluginData :
        add_form_element_entry_aggregate(p, "u1", 1, "text",
            [method |-> "POST", is_valid |-> TRUE, plugin_data |-> d])

RaceSaveElement == \E p \in Workers : add_form_element_entry_save(p)

NextRace ==
    \/ RaceCountHandler
    \/ RaceSaveHandler
    \/ RaceAggregateElement
    \/ RaceSaveElement

SpecRace == Init /\ [][NextRace]_vars

\* C24: of two add_form_handler_entry requests for one allow_multiple =
\* false plugin on one form that both count before either saves, the one
\* that saves second stores nothing and ends in an error answer (not in a
\* success and not in an exception), so that at most one handler entry of
\* the plugin exists afterwards.
C24_RacingSingleHandlerAddsLeaveOne ==
    [][\A p \in Workers :
          (/\ inflight[p].pc = "read"
           /\ inflight'[p].pc = "idle"
           /\ inflight[p].view = "add_form_handler_entry"
           /\ ~allow_multiple(inflight[p].uid)
           /\ Count(formHandlerEntries, inflight[p].id, inflight[p].uid) > 0)
          => /\ formHandlerEntries' = formHandlerEntries
             /\ response'.status \in {"Http404", "render"}
      ]_vars

\* C25: when two add_form_element_entry requests on one form both read
\* the maximum position before either saves, the two entries they store
\* do not have the same position: after every save of such a request no
\* two element entries of the form share a position.
C25_RacingElementAddsGetDistinctPositions ==
    [][(\E p \in Workers :
           /\ inflight[p].pc = "read"
           /\ inflight'[p].pc = "idle"
           /\ inflight[p].view = "add_form_element_entry")
       => \A i, j \in 1..Len(formElementEntries') :
             (i # j /\ formElementEntries'[i].form_entry
                         = formElementEntries'[j].form_entry)
                 => formElementEntries'[i].position
                       # formElementEntries'[j].position
      ]_vars

(***************************************************************************)
(* add_form_wizard_form_entry                                              *)
(***************************************************************************)
\* The steps of one wizard.
StepsOfWizard(rows, form_wizard_entry_id) ==
    {r \in Range(rows) : r.form_wizard_entry = form_wizard_entry_id}

\* `FormWizardFormEntry.objects.create(...)` raises IntegrityError: the
\* form is a step of the wizard already.
step_exists(form_wizard_entry_id, form_entry_id) ==
    \E r \in StepsOfWizard(formWizardFormEntries, form_wizard_entry_id) :
        r.form_entry = form_entry_id

add_form_wizard_form_entry(user, form_wizard_entry_id, form_entry_id) ==
    LET req == Request("add_form_wizard_form_entry", user, "GET",
                       form_wizard_entry_id, None, FALSE, None)
        created == [pk |-> pks.wizard_form,
                    form_wizard_entry |-> form_wizard_entry_id,
                    form_entry |-> form_entry_id,
                    position |-> NoPosition]
        records == StepsOfWizard(formWizardFormEntries, form_wizard_entry_id)
                       \cup {created}
        obj == [created EXCEPT !.position = next_position(records)]
    IN
    IF ~\E w \in formWizardEntries :
            w.pk = form_wizard_entry_id /\ w.user = user
    THEN Answer(req, Http404("Form wizard entry not found."), <<>>, <<>>)
         /\ UNCHANGED <<db, storage, effects, exported, inflight>>
    ELSE IF ~\E f \in formEntries : f.pk = form_entry_id /\ f.user = user
    THEN Answer(req, Http404("Form entry not found."), <<>>, <<>>)
         /\ UNCHANGED <<db, storage, effects, exported, inflight>>
    ELSE IF step_exists(form_wizard_entry_id, form_entry_id)
    THEN Answer(req, Redirect("fobi.edit_form_wizard_entry"),
                <<Message("error", "The form entry could not be added to the wizard.")>>,
                <<Call("create", 0, None)>>)
         /\ UNCHANGED <<db, storage, effects, exported, inflight>>
    ELSE /\ pks.wizard_form <= MaxPk
         /\ formWizardFormEntries' = Append(formWizardFormEntries, obj)
         /\ pks' = [pks EXCEPT !.wizard_form = @ + 1]
         /\ Answer(req, Redirect("fobi.edit_form_wizard_entry"),
                   <<Message("info", "The form entry was added successfully to the wizard.")>>,
                   <<Call("create", obj.pk, None), Call("save", obj.pk, None)>>)
         /\ UNCHANGED <<formEntries, formElementEntries, formHandlerEntries,
                        formWizardEntries, formWizardHandlerEntries,
                        storage, effects, exported, inflight>>

(***************************************************************************)
(* SpecNextPosition: u1 adds elements to form 1 and deletes them, makes    *)
(* forms, deletes them, and binds them to wizard 1 as steps.               *)
(***************************************************************************)
NextPositionAddElement == add_form_element_entry("u1", 1, "text", PostFresh)

NextPositionDeleteElement ==
    \E pk \in 1..MaxPk : delete_form_element_entry("u1", pk)

NextPositionCreateForm ==
    \E slug \in {"s3", "s4"} : create_form_entry("u1", "POST", TRUE, slug)

NextPositionDeleteForm ==
    \E pk \in 1..MaxPk : delete_form_entry("u1", pk)

NextPositionAddStep ==
    \E pk \in 1..MaxPk : add_form_wizard_form_entry("u1", 1, pk)

NextNextPosition ==
    \/ NextPositionAddElement
    \/ NextPositionDeleteElement
    \/ NextPositionCreateForm
    \/ NextPositionDeleteForm
    \/ NextPositionAddStep

SpecNextPosition == Init /\ [][NextNextPosition]_vars

\* The greatest position among the rows, 0 when none has a position.
MaxOfPositions(rows) ==
    IF \A r \in rows : r.position = NoPosition THEN 0
    ELSE CHOOSE p \in {r.position : r \in rows} :
            \A r \in rows : r.position <= p

\* rows' is rows with one row appended, whose position is 1 when none of
\* its siblings has a position and the greatest of them plus 1 otherwise.
AppendedAtNextPosition(before, after, siblings) ==
    /\ Len(after) = Len(before) + 1
    /\ SubSeq(after, 1, Len(before)) = before
    /\ after[Len(after)].position = MaxOfPositions(siblings) + 1
    /\ \A r \in siblings : after[Len(after)].position > r.position

\* C26: an element entry stored by add_form_element_entry has position 1
\* when the form has no element entry with a position and max + 1
\* otherwise, which is greater than the position of every sibling, and the
\* entries that were there are unchanged; a step stored by
\* add_form_wizard_form_entry gets its position by the same rule.
C26_NewEntryAtMaxPlusOne ==
    [][/\ (request'.view = "add_form_element_entry"
             /\ formElementEntries' # formElementEntries)
          => AppendedAtNextPosition(formElementEntries, formElementEntries',
                 OfForm(formElementEntries, request'.id))
       /\ (request'.view = "add_form_wizard_form_entry"
             /\ formWizardFormEntries' # formWizardFormEntries)
          => AppendedAtNextPosition(formWizardFormEntries,
                 formWizardFormEntries',
                 StepsOfWizard(formWizardFormEntries, request'.id))
      ]_vars

\* C26 witness: after the first of two elements was deleted, the element
\* added next was put behind the one at position 2; and the wizard got its
\* first step, at position 1.
C26_Witness ==
    /\ Len(formElementEntries) = 2
    /\ formElementEntries[1].position = 2
    /\ formElementEntries[2].position = 3
    /\ Len(formWizardFormEntries) >= 1
    /\ formWizardFormEntries[1].position = 1

(***************************************************************************)
(* form_wizard_entry_submitted                                             *)
(***************************************************************************)
\* The wizards `FormWizardEntry.get(**kwargs)` can return: the slug is
\* given, and is_public = True is added for a user who is not logged in.
form_wizard_entry_submitted_lookup(user, form_wizard_entry_slug) ==
    {w \in formWizardEntries :
        /\ w.slug = form_wizard_entry_slug
        /\ (user = AnonymousUser => w.is_public)}

form_wizard_entry_submitted(user, form_wizard_entry_slug) ==
    LET req == Request("form_wizard_entry_submitted", user, "GET", 0,
                       form_wizard_entry_slug, FALSE, None)
    IN
    /\ IF form_wizard_entry_submitted_lookup(user, form_wizard_entry_slug)
            = {}
       THEN Answer(req, Http404("Form wizard entry not found."), <<>>, <<>>)
       ELSE Answer(req, Render("form_wizard_entry_submitted_template"),
                   <<>>, <<>>)
    /\ UNCHANGED <<db, storage, effects, exported, inflight>>

(***************************************************************************)
(* SpecPrivateWizard: the wizard of SpecWizard is not public, and a        *)
(* requester who is not logged in asks for it.                             *)
(***************************************************************************)
InitPrivateWizard ==
    /\ formEntries = {[pk |-> i, user |-> "u1", slug |-> StepSlugs[i],
                       is_public |-> TRUE] : i \in 1..WizardSteps}
    /\ formElementEntries = <<>>
    /\ formHandlerEntries = <<>>
    /\ formWizardEntries = {[pk |-> 1, user |-> "u1", slug |-> "w1",
                             is_public |-> FALSE]}
    /\ formWizardFormEntries =
           [i \in 1..WizardSteps |->
               [pk |-> i, form_wizard_entry |-> 1, form_entry |-> i,
                position |-> i]]
    /\ formWizardHandlerEntries = <<>>
    /\ pks = [form |-> WizardSteps + 1, element |-> 1, handler |-> 1,
              wizard |-> 2, wizard_form |-> WizardSteps + 1,
              wizard_handler |-> 1]
    /\ InitRequest

PrivateWizardSubmitted ==
    \E user \in {"u1", AnonymousUser} :
        form_wizard_entry_submitted(user, "w1")

NextPrivateWizard ==
    \/ WizardAddHandler
    \/ WizardGet
    \/ WizardPost
    \/ PrivateWizardSubmitted

SpecPrivateWizard == InitPrivateWizard /\ [][NextPrivateWizard]_vars

\* C27: a request of a requester who is not logged in, for a wizard that
\* is not public, ends in not-found, in FormWizardView (get, post, done)
\* as in form_wizard_entry_submitted.
C27_PrivateWizardNotFoundForAnonymous ==
    (/\ request.user = AnonymousUser
     /\ request.view \in {"FormWizardView.get", "FormWizardView.post",
                          "form_wizard_entry_submitted"}
     /\ \E w \in formWizardEntries :
           w.slug = request.uid /\ ~w.is_public)
    => response = Http404("Form wizard entry not found.")

(***************************************************************************)
(* delete_form_wizard_entry                                                *)
(***************************************************************************)
\* The rows of s that do not belong to the wizard.
NotOfWizard(s, form_wizard_entry_id) ==
    SelectRows(s, {r.pk : r \in {x \in Range(s) :
                       x.form_wizard_entry # form_wizard_entry_id}})

\* obj.delete() removes the wizard and, by cascade, its steps and its
\* handler entries; the view calls nothing else.
delete_form_wizard_entry(user, form_wizard_entry_id) ==
    LET req == Request("delete_form_wizard_entry", user, "GET",
                       form_wizard_entry_id, None, FALSE, None)
        found == {w \in formWizardEntries :
                     w.pk = form_wizard_entry_id /\ w.user = user}
    IN
    IF found = {}
    THEN Answer(req, Http404("Form wizard entry not found."), <<>>, <<>>)
         /\ UNCHANGED <<db, storage, effects, exported, inflight>>
    ELSE /\ Answer(req, Redirect("fobi.form_wizards_dashboard"),
                   <<Message("info", "The form wizard was deleted successfully.")>>,
                   <<Call("delete", form_wizard_entry_id, None)>>)
         /\ formWizardEntries' = formWizardEntries \ found
         /\ formWizardFormEntries' =
               NotOfWizard(formWizardFormEntries, form_wizard_entry_id)
         /\ formWizardHandlerEntries' =
               NotOfWizard(formWizardHandlerEntries, form_wizard_entry_id)
         /\ UNCHANGED <<formEntries, formElementEntries, formHandlerEntries,
                        pks, storage, effects, exported, inflight>>

(***************************************************************************)
(* SpecCascade: u1 fills form 1 and wizard 1 with entries and deletes the  *)
(* form and the wizard.                                                    *)
(***************************************************************************)
CascadeFill ==
    /\ EditRoom
    /\ \/ add_form_element_entry("u1", 1, "text", PostFresh)
       \/ \E uid \in FormHandlerUids :
            add_form_handler_entry("u1", 1, uid, PostValid)
       \/ \E uid \in FormWizardHandlerUids :
            add_form_wizard_handler_entry("u1", 1, uid, PostValid)

CascadeDeleteForm ==
    \E user \in Users, pk \in 1..2 : delete_form_entry(user, pk)

CascadeDeleteWizard ==
    \E user \in Users : delete_form_wizard_entry(user, 1)

NextCascade ==
    \/ CascadeFill
    \/ CascadeDeleteForm
    \/ CascadeDeleteWizard

SpecCascade == Init /\ [][NextCascade]_vars

\* C28: when delete_form_entry or delete_form_wizard_entry removes the
\* entries of the form or wizard with it, the cleanup hook of the plugin
\* of every removed entry has been called on its plugin data before.
C28_CleanupHookBeforeCascade ==
    [][request'.view \in {"delete_form_entry", "delete_form_wizard_entry"}
         => \A pk \in Removed(formElementEntries, formElementEntries')
                 \cup Removed(formHandlerEntries, formHandlerEntries')
                 \cup Removed(formWizardHandlerEntries,
                              formWizardHandlerEntries') :
               HookBeforeDelete(trace', pk)
      ]_vars

(***************************************************************************)
(* SliderInputForm (slider/forms.py): the plugin form of the slider field. *)
(* A posted value is [state, value]: state "value" for an integer, "blank" *)
(* for an empty input.  A cleaned value is [state, value]: "value" for an  *)
(* integer in cleaned_data, "none" for None in cleaned_data, "absent" for  *)
(* a key that is not in cleaned_data because the field recorded an error.  *)
(***************************************************************************)
\* Bounds of the integer fields (imported from .settings).
MIN_VALUE == 0

MAX_VALUE == 2

SLIDER_HANDLE_CHOICES == {"round", "triangle", "custom"}

SLIDER_SHOW_ENDPOINTS_AS_CHOICES == {"labeled", "labeled_ticks", "ticks"}

\* The interpreters the package runs on: they differ in comparing an
\* integer with None.
PythonVersions == {2, 3}

Posted(v) == [state |-> "value", value |-> v]

Blank == [state |-> "blank", value |-> 0]

Cleaned(v) == [state |-> "value", value |-> v]

CleanedNone == [state |-> "none", value |-> 0]

Absent == [state |-> "absent", value |-> 0]

\* forms.IntegerField(required=..., min_value=MIN_VALUE,
\* max_value=MAX_VALUE): an empty input is an error when required and None
\* otherwise; an integer outside the bounds is an error.
IntegerField(posted, required) ==
    IF posted.state = "blank"
    THEN IF required THEN Absent ELSE CleanedNone
    ELSE IF posted.value < MIN_VALUE \/ posted.value > MAX_VALUE
         THEN Absent
         ELSE Cleaned(posted.value)

\* _clean_fields: cleaned_data of the four integer fields and the two
\* choices (the choices posted here are always among the offered ones).
cleaned_data(post) ==
    [min_value |-> IntegerField(post.min_value, TRUE),
     max_value |-> IntegerField(post.max_value, TRUE),
     step |-> IntegerField(post.step, TRUE),
     initial |-> IntegerField(post.initial, FALSE),
     handle |-> post.handle,
     show_endpoints_as |-> post.show_endpoints_as]

field_errors(data) ==
    {f \in {"min_value", "max_value", "step", "initial"} :
        data[f].state = "absent"}

SliderOutcome(errors, raised) == [errors |-> errors, raised |-> raised]

\* x < y as the interpreter evaluates it when y may be None: Python 2
\* orders None below every integer.
LessThan(x, y) == IF y.state = "none" THEN FALSE ELSE x.value < y.value

GreaterThan(x, y) == IF y.state = "none" THEN TRUE ELSE x.value > y.value

label_handles == {"triangle", "custom"}

tick_endpoints == {"labeled_ticks", "ticks"}

\* clean without the check of step against the range.
clean_without_step(data, python) ==
    IF \E f \in {"max_value", "min_value", "initial", "step"} :
           data[f].state = "absent"
    THEN SliderOutcome({}, "KeyError")
    ELSE IF data.initial.state = "none" /\ python = 3
    THEN SliderOutcome({}, "TypeError")
    ELSE SliderOutcome(
             (IF data.max_value.value < data.min_value.value
              THEN {"max_value"} ELSE {})
             \cup (IF LessThan(data.max_value, data.initial)
                   THEN {"initial"} ELSE {})
             \cup (IF GreaterThan(data.min_value, data.initial)
                   THEN {"min_value"} ELSE {})
             \cup (IF data.handle \in label_handles
                      /\ data.show_endpoints_as \in tick_endpoints
                   THEN {"handle"} ELSE {}),
             None)

\* SliderInputForm.clean: the fields it reads with cleaned_data[...], then
\* the five checks, each adding an error on one field.
clean(data, python) ==
    IF \E f \in {"max_value", "min_value", "initial", "step"} :
           data[f].state = "absent"
    THEN SliderOutcome({}, "KeyError")
    ELSE IF data.initial.state = "none" /\ python = 3
    THEN SliderOutcome({}, "TypeError")
    ELSE SliderOutcome(
             (IF data.max_value.value < data.min_value.value
              THEN {"max_value"} ELSE {})
             \cup (IF data.step.value
                         > data.max_value.value - data.min_value.value
                   THEN {"step"} ELSE {})
             \cup (IF LessThan(data.max_value, data.initial)
                   THEN {"initial"} ELSE {})
             \cup (IF GreaterThan(data.min_value, data.initial)
                   THEN {"min_value"} ELSE {})
             \cup (IF data.handle \in label_handles
                      /\ data.show_endpoints_as \in tick_endpoints
                   THEN {"handle"} ELSE {}),
             None)

\* full_clean: the fields are cleaned, then clean() runs whatever the
\* fields recorded; an exception of clean() leaves full_clean.
full_clean(post, python) ==
    LET data == cleaned_data(post)
        out == clean(data, python)
    IN  SliderOutcome(
            IF out.raised = None
            THEN field_errors(data) \cup out.errors
            ELSE field_errors(data),
            out.raised)

(***************************************************************************)
(* SpecSlider: one slider configuration is posted and cleaned.             *)
(***************************************************************************)
PostedIntegers == {Posted(v) : v \in (MIN_VALUE - 1)..(MAX_VALUE + 1)}

SliderPosts ==
    [view : {"SliderInputForm"},
     min_value : PostedIntegers \cup {Blank},
     max_value : PostedIntegers \cup {Blank},
     step : PostedIntegers \cup {Blank},
     initial : PostedIntegers \cup {Blank},
     handle : SLIDER_HANDLE_CHOICES,
     show_endpoints_as : SLIDER_SHOW_ENDPOINTS_AS_CHOICES,
     python : PythonVersions]

NotCleaned == [errors |-> {}, raised |-> "not cleaned"]

InitSlider ==
    /\ InitDb
    /\ storage = EmptyStorage
    /\ request \in SliderPosts
    /\ response = NoResponse
    /\ messages = <<>>
    /\ trace = <<>>
    /\ result = NotCleaned
    /\ effects = NoEffects
    /\ exported = NoFile
    /\ inflight = [p \in Workers |-> NoFlight]

SliderClean ==
    /\ result = NotCleaned
    /\ result' = full_clean(request, request.python)
    /\ UNCHANGED <<formEntries, formElementEntries, formHandlerEntries,
                   formWizardEntries, formWizardFormEntries,
                   formWizardHandlerEntries, pks, storage, request,
                   response, messages, trace, effects, exported, inflight>>

NextSlider ==
    \/ SliderClean

SpecSlider == InitSlider /\ [][NextSlider]_vars

\* The four integers are posted and lie within the configured bounds.
WithinBounds ==
    \A f \in {"min_value", "max_value", "step", "initial"} :
        /\ request[f].state = "value"
        /\ request[f].value \in MIN_VALUE..MAX_VALUE

SliderCleaned == result # NotCleaned

\* The errors the four conditions ask for, each on its own field.
ExpectedErrors ==
    LET lo == request.min_value.value
        hi == request.max_value.value
        st == request.step.value
        ini == request.initial.value
    IN  (IF ~(lo <= hi) THEN {"max_value"} ELSE {})
        \cup (IF ~(st <= hi - lo) THEN {"step"} ELSE {})
        \cup (IF ~(ini <= hi) THEN {"initial"} ELSE {})
        \cup (IF ~(lo <= ini) THEN {"min_value"} ELSE {})
        \cup (IF request.handle \in {"triangle", "custom"}
                 /\ request.show_endpoints_as \in {"ticks", "labeled_ticks"}
              THEN {"handle"} ELSE {})

C30_CleanNeverRaises ==
    SliderCleaned => result.raised = None

=============================================================================
